---- MODULE Spec2Model ----
(***************************************************************************)
(* Portfolio valuation and reconciliation engine of the trading backend:   *)
(* the trade ledger, the portfolio_snapshots table, the                    *)
(* snapshot_symbol_prices cache, the snapshot materializer                 *)
(* (snapshot_service.py) and the broker sync (sync_service.py,             *)
(* migration_service.py, api/trades.py).                                   *)
(*                                                                         *)
(* Conventions.  A nullable column or Optional value is a sequence of      *)
(* length 0 (None) or 1 (Some(v)).  Prices and amounts are integers; a     *)
(* percentage is the integer quotient of the float expression.  Symbols    *)
(* are the upper-case names every write boundary stores (trades.py:184,    *)
(* trades_import.py:114, migration_service.py:73), account ids are         *)
(* non-empty strings.  Timestamps are readings of a logical clock.         *)
(***************************************************************************)
EXTENDS Integers, Sequences, FiniteSets, TLC

\* ------------------------------------------------------------------ bounds
MaxTrades == 2
MaxPrice == 2
MaxDate == 1
MaxClock == 2
MaxPayins == 2

\* ------------------------------------------------------------------ values
None == << >>
Some(v) == << v >>
IsSome(x) == x # None
Val(x) == x[1]
Opt(S) == {None} \cup {Some(v) : v \in S}

Symbols == {"AAA", "BBB"}
Exchanges == {"NSE", "BSE"}
Accounts == {"U1", "U2"}
Strategies == {"SWING", "OVERALL"}
Dates == 1..MaxDate
Prices == 1..MaxPrice
\* values an unvalidated price field can carry: zero as well as positive
RawPrices == 0..MaxPrice

Max(S) == CHOOSE m \in S : \A x \in S : x <= m

RECURSIVE SumOver(_, _)
SumOver(f, S) ==
    IF S = {} THEN 0
    ELSE LET i == CHOOSE j \in S : TRUE IN f[i] + SumOver(f, S \ {i})

VARIABLES
    trades,        \* trades table: sequence of rows, id = position
    snapshots,     \* portfolio_snapshots table: set of rows (id is the key)
    nextSnapId,    \* autoincrement of portfolio_snapshots.id
    symbolPrices,  \* committed rows of snapshot_symbol_prices
    clock,         \* datetime.now() readings so far
    workers,       \* in-flight create_snapshot calls (session-local state)
    last,          \* the last completed request and its outcome
    price_cache,   \* _price_cache of the market data service, by exchange:symbol
    payins,        \* payins table: sequence of rows, id = position
    migration_flags, \* accounts with a .migration_done_<user_id> flag file
    cache_timestamps, \* _cache_timestamps of the market data service
    now            \* the wall clock, in seconds

vars == << trades, snapshots, nextSnapId, symbolPrices, clock, workers, last,
          price_cache, payins, migration_flags, cache_timestamps, now >>

Workers == {"job", "manual"}

Idle == [pc |-> "idle"]

\* the tables and caches of a new deployment
InitTables ==
    /\ trades = << >>
    /\ snapshots = {}
    /\ nextSnapId = 1
    /\ symbolPrices = {}
    /\ clock = 0
    /\ workers = [w \in Workers |-> Idle]
    /\ last = [op |-> "init", ok |-> TRUE]
    /\ price_cache = [key \in Exchanges \X Symbols |-> None]
    /\ cache_timestamps = [key \in Exchanges \X Symbols |-> None]
    /\ now = 0
    /\ payins = << >>

Init ==
    /\ InitTables
    /\ migration_flags = {}

\* no create_snapshot call is in flight
AllIdle == \A w \in Workers : workers[w].pc \in {"idle", "done"}

\* ------------------------------------------------------------ trade ledger
TradeIds == 1..Len(trades)
OpenTrades == {i \in TradeIds : trades[i].status = "OPEN"}

NewTrade(symbol, buy_date, buy_price, quantity, user, current_price) ==
    [ symbol |-> symbol, status |-> "OPEN",
      buy_date |-> buy_date, buy_price |-> buy_price, quantity |-> quantity,
      buy_amount |-> buy_price * quantity, buy_charges |-> Some(0),
      sell_date |-> None, sell_price |-> None, sell_amount |-> None,
      sell_charges |-> Some(0),
      zerodha_user_id |-> user,
      current_price |-> current_price,
      day_change |-> None, day_change_percentage |-> None ]

\* POST /api/trades/buy without broker execution: an OPEN trade, no price yet
BuyTrade(symbol, buy_date, buy_price, quantity, user) ==
    /\ AllIdle
    /\ Len(trades) < MaxTrades
    /\ trades' = Append(trades,
                        NewTrade(symbol, buy_date, buy_price, quantity, user, None))
    /\ last' = [op |-> "buy_trade", ok |-> TRUE]
    /\ UNCHANGED << now, cache_timestamps, payins, migration_flags, price_cache, snapshots, nextSnapId, symbolPrices, clock, workers >>

\* POST /api/trades/import of one OPEN record: current_price is taken from
\* the file as it is
ImportOpenTrade(symbol, buy_date, buy_price, quantity, user, current_price) ==
    /\ AllIdle
    /\ Len(trades) < MaxTrades
    /\ trades' = Append(trades,
                        NewTrade(symbol, buy_date, buy_price, quantity, user,
                                 current_price))
    /\ last' = [op |-> "import_trades", ok |-> TRUE]
    /\ UNCHANGED << now, cache_timestamps, payins, migration_flags, price_cache, snapshots, nextSnapId, symbolPrices, clock, workers >>

\* POST /api/trades/import of one CLOSED record
ImportClosedTrade(symbol, buy_date, buy_price, quantity, user, sell_date, sell_price) ==
    /\ AllIdle
    /\ Len(trades) < MaxTrades
    /\ trades' = Append(trades,
          [ NewTrade(symbol, buy_date, buy_price, quantity, user, None)
              EXCEPT !.status = "CLOSED",
                     !.sell_date = Some(sell_date),
                     !.sell_price = Some(sell_price),
                     !.sell_amount = Some(sell_price * quantity) ])
    /\ last' = [op |-> "import_trades", ok |-> TRUE]
    /\ UNCHANGED << now, cache_timestamps, payins, migration_flags, price_cache, snapshots, nextSnapId, symbolPrices, clock, workers >>

\* Trade.calculate_profit_loss raises TypeError when it adds or subtracts a
\* NULL charge: buy_charges in its first statement, sell_charges on the
\* CLOSED branch
profit_loss_raises(t) ==
    \/ t.buy_charges = None
    \/ /\ t.status = "CLOSED" /\ IsSome(t.sell_price) /\ Val(t.sell_price) # 0
       /\ t.sell_charges = None

\* Trade.calculate_profit_loss, where it does not raise
calculate_profit_loss(t) ==
    LET total_buy == t.buy_amount + Val(t.buy_charges) IN
    IF t.status = "CLOSED" /\ IsSome(t.sell_price) /\ Val(t.sell_price) # 0
    THEN LET total_sell ==
                 IF t.sell_amount = None
                 THEN Val(t.sell_price) * t.quantity - Val(t.sell_charges)
                 ELSE Val(t.sell_amount) - Val(t.sell_charges)
         IN Some(total_sell - total_buy)
    ELSE IF t.status = "OPEN" /\ IsSome(t.current_price) /\ Val(t.current_price) # 0
    THEN Some(Val(t.current_price) * t.quantity - total_buy)
    ELSE None

\* ---------------------------------------------------------- metrics engine
\* scope of calculate_portfolio_metrics: account_ids, else the single
\* account, else no filter (empty set)
target_account_ids(zerodha_user_id, account_ids) ==
    IF account_ids # {} THEN account_ids
    ELSE IF IsSome(zerodha_user_id) THEN {Val(zerodha_user_id)}
    ELSE {}

InScope(t, snapshot_date, target) ==
    /\ t.buy_date <= snapshot_date
    /\ target # {} => (IsSome(t.zerodha_user_id) /\ Val(t.zerodha_user_id) \in target)

PayinIds == 1..Len(payins)

\* mutant of PayinInScope: the account filter is left out
PayinOfAnyAccount(p, snapshot_date, target) ==
    p.payin_date <= snapshot_date

\* the payin query (lines 47-51)
PayinInScope(p, snapshot_date, target) ==
    /\ p.payin_date <= snapshot_date
    /\ target # {} => (IsSome(p.zerodha_user_id) /\ Val(p.zerodha_user_id) \in target)

\* a / b of two numbers with b > 0, as the integer below the quotient
Quotient(a, b) == a \div b

\* mutant of EvaluatedTrades: a CLOSED trade counts whenever it was sold
EvaluatedTradesSoldAnyDay(snapshot_date, target) ==
    {i \in TradeIds : InScope(trades[i], snapshot_date, target)}

\* the trades whose calculate_profit_loss the two loops call (lines 67-69,
\* 80-90)
EvaluatedTrades(snapshot_date, target) ==
    {i \in TradeIds :
        /\ InScope(trades[i], snapshot_date, target)
        /\ \/ trades[i].status = "OPEN"
           \/ /\ trades[i].status = "CLOSED"
              /\ IsSome(trades[i].sell_date)
              /\ Val(trades[i].sell_date) <= snapshot_date}

\* calculate_portfolio_metrics raises: a profit/loss computation in one of
\* its loops does, and nothing catches it
metrics_raise(snapshot_date, zerodha_user_id, account_ids) ==
    \E i \in EvaluatedTrades(snapshot_date,
                             target_account_ids(zerodha_user_id, account_ids)) :
        profit_loss_raises(trades[i])

\* the figures of calculate_portfolio_metrics up to total_portfolio (lines
\* 46-96), where it does not raise
ledger_totals(snapshot_date, zerodha_user_id, account_ids) ==
    LET target == target_account_ids(zerodha_user_id, account_ids)
        paid == {k \in PayinIds : PayinInScope(payins[k], snapshot_date, target)}
        amount == [k \in paid |-> payins[k].amount]
        shares == [k \in paid |-> IF IsSome(payins[k].number_of_shares)
                                  THEN Val(payins[k].number_of_shares) ELSE 0]
        evaluated == EvaluatedTrades(snapshot_date, target)
        closed == {i \in evaluated : /\ trades[i].status = "CLOSED"
                                     /\ IsSome(calculate_profit_loss(trades[i]))}
        open == {i \in evaluated : trades[i].status = "OPEN"}
        floating == {i \in open : IsSome(calculate_profit_loss(trades[i]))}
        pl == [i \in closed \cup floating |-> Val(calculate_profit_loss(trades[i]))]
        invested == [i \in open |-> trades[i].buy_price * trades[i].quantity]
        total_payin == SumOver(amount, paid)
        booked_pl == SumOver(pl, closed)
        float_pl == SumOver(pl, floating)
    IN [ paid |-> paid,
         payin_list |-> {k \in paid : payins[k].amount # 0},
         total_payin |-> total_payin,
         total_shares |-> SumOver(shares, paid),
         booked_pl |-> booked_pl,
         float_pl |-> float_pl,
         open_positions |-> SumOver(invested, open),
         total_portfolio |-> total_payin + booked_pl + float_pl ]

\* calculate_portfolio_xirr (utils/xirr.py:123-194) is a floating-point root
\* search; here it is its outcome: a rate in percent, None, or an exception
XirrRates == {-MaxPrice, MaxPrice}

NotCalled == [outcome |-> "not_called", rate |-> 0]

\* line 115 and 126: the root search is called for a positive portfolio
\* with at least one non-zero payin
xirr_is_called(snapshot_date, zerodha_user_id, account_ids) ==
    LET sums == ledger_totals(snapshot_date, zerodha_user_id, account_ids)
    IN sums.paid # {} /\ sums.total_portfolio > 0 /\ sums.payin_list # {}

XirrResults(snapshot_date, zerodha_user_id, account_ids) ==
    IF /\ ~metrics_raise(snapshot_date, zerodha_user_id, account_ids)
       /\ xirr_is_called(snapshot_date, zerodha_user_id, account_ids)
    THEN [outcome : {"rate"}, rate : XirrRates]
             \cup [outcome : {"none", "raises"}, rate : {0}]
    ELSE {NotCalled}

\* line 150
absolute_profit_percent(total_portfolio, total_payin) ==
    IF total_payin > 0
    THEN Quotient((total_portfolio - total_payin) * 100, total_payin)
    ELSE 0

\* lines 131, 135, 138, 141, 147: the simple return percentage
simple_return(booked_pl, float_pl, total_payin) ==
    IF total_payin > 0 THEN Quotient((booked_pl + float_pl) * 100, total_payin) ELSE 0

\* calculate_portfolio_metrics (lines 17-163), where it does not raise;
\* xirr_result is the outcome of the root search when it is called
calculate_portfolio_metrics(snapshot_date, zerodha_user_id, account_ids, xirr_result) ==
    LET sums == ledger_totals(snapshot_date, zerodha_user_id, account_ids)
        available_capital ==
            sums.total_payin + (IF sums.booked_pl > 0 THEN sums.booked_pl ELSE 0)
    IN [ nav |-> IF sums.total_shares > 0
                 THEN Quotient(sums.total_portfolio, sums.total_shares)
                 ELSE sums.total_portfolio,
         portfolio_value |-> sums.total_portfolio,
         total_payin |-> sums.total_payin,
         booked_pl |-> sums.booked_pl,
         float_pl |-> sums.float_pl,
         open_positions |-> sums.open_positions,
         balance |-> sums.total_payin + sums.booked_pl - sums.open_positions,
         utilisation_percent |->
             IF available_capital > 0
             THEN Quotient(sums.open_positions * 100, available_capital)
             ELSE 0,
         xirr |->
             IF sums.paid # {} /\ sums.total_portfolio > 0
             THEN IF sums.payin_list # {} /\ xirr_result.outcome = "rate"
                  THEN xirr_result.rate
                  ELSE simple_return(sums.booked_pl, sums.float_pl, sums.total_payin)
             ELSE IF sums.total_payin > 0
             THEN simple_return(sums.booked_pl, sums.float_pl, sums.total_payin)
             ELSE 0,
         absolute_profit_percent |->
             absolute_profit_percent(sums.total_portfolio, sums.total_payin) ]

\* ------------------------------------------------- snapshot_symbol_prices
\* symbols of the aggregation query: OPEN trades with a positive price
PricedSymbols ==
    {trades[i].symbol : i \in {j \in OpenTrades :
        IsSome(trades[j].current_price) /\ Val(trades[j].current_price) > 0}}

\* mutant of max_price: the aggregate takes the smallest price
min_price(symbol) ==
    CHOOSE m \in {Val(trades[i].current_price) : i \in {j \in OpenTrades :
            /\ trades[j].symbol = symbol
            /\ IsSome(trades[j].current_price)
            /\ Val(trades[j].current_price) > 0}} :
        \A i \in OpenTrades :
            (/\ trades[i].symbol = symbol /\ IsSome(trades[i].current_price)
             /\ Val(trades[i].current_price) > 0) => m <= Val(trades[i].current_price)

\* func.max(Trade.current_price) ... group_by(Trade.symbol)
max_price(symbol) ==
    Max({Val(trades[i].current_price) : i \in {j \in OpenTrades :
            /\ trades[j].symbol = symbol
            /\ IsSome(trades[j].current_price)
            /\ Val(trades[j].current_price) > 0}})

\* the rows _store_symbol_ltps adds: one per priced symbol, one timestamp
symbol_prices(snapshot_taken_at) ==
    {[symbol |-> s, ltp |-> max_price(s), snapshot_taken_at |-> snapshot_taken_at] :
        s \in PricedSymbols}

CacheRowsOf(s) == {r \in symbolPrices : r.symbol = s}

\* ------------------------------------------------------- snapshot lookup
SnapKey(r) == << r.snapshot_date, r.zerodha_user_id, r.trading_strategy >>

RowsWithKey(rows, k) == {r \in rows : SnapKey(r) = k}
RowIds(rows) == {r.id : r \in rows}

\* mutant of existing_query: the account filter tests for NULL instead of
\* the requested account
existing_query_null_account(snapshot_date, zerodha_user_id, trading_strategy) ==
    {r \in snapshots :
        /\ r.snapshot_date = snapshot_date
        /\ r.zerodha_user_id = None
        /\ IsSome(trading_strategy) => r.trading_strategy = trading_strategy}

\* the rows existing_query selects (create_snapshot, lines 257-273)
existing_query(snapshot_date, zerodha_user_id, trading_strategy) ==
    {r \in snapshots :
        /\ r.snapshot_date = snapshot_date
        /\ IF IsSome(zerodha_user_id)
           THEN /\ r.zerodha_user_id = zerodha_user_id
                /\ IsSome(trading_strategy) => r.trading_strategy = trading_strategy
           ELSE IF IsSome(trading_strategy)
           THEN /\ r.trading_strategy = trading_strategy
                /\ r.zerodha_user_id = None
           ELSE TRUE}

\* .first(): some selected row (the query has no ORDER BY), or None
FirstChoices(rows) ==
    IF rows = {} THEN {None} ELSE {Some(r.id) : r \in rows}

MetricFields ==
    {"nav", "portfolio_value", "total_payin", "booked_pl", "float_pl",
     "open_positions", "balance", "utilisation_percent", "xirr",
     "absolute_profit_percent"}

\* mutant of UpdatedRow: total_payin of the stored row is left as it was
UpdatedRowKeepingPayin(r, metrics) ==
    [f \in DOMAIN r |-> IF f \in MetricFields \ {"total_payin"} THEN metrics[f] ELSE r[f]]

\* lines 283-292: every metric of the row is overwritten
UpdatedRow(r, metrics) ==
    [f \in DOMAIN r |-> IF f \in MetricFields THEN metrics[f] ELSE r[f]]

\* lines 299-313
InsertedRow(id, snapshot_date, zerodha_user_id, trading_strategy, metrics) ==
    [ id |-> id, snapshot_date |-> snapshot_date,
      zerodha_user_id |-> zerodha_user_id,
      trading_strategy |-> trading_strategy,
      nav |-> metrics.nav,
      portfolio_value |-> metrics.portfolio_value,
      total_payin |-> metrics.total_payin,
      booked_pl |-> metrics.booked_pl,
      float_pl |-> metrics.float_pl,
      open_positions |-> metrics.open_positions,
      balance |-> metrics.balance,
      utilisation_percent |-> metrics.utilisation_percent,
      xirr |-> metrics.xirr,
      absolute_profit_percent |-> metrics.absolute_profit_percent ]

\* the snapshot-row write of create_snapshot (lines 281-318) on the
\* committed table: update the looked-up row in place, or add a row
WriteSnapshotRow(existing, snapshot_date, zerodha_user_id, trading_strategy, metrics) ==
    IF IsSome(existing)
    THEN {IF r.id = Val(existing) THEN UpdatedRow(r, metrics) ELSE r : r \in snapshots}
    ELSE snapshots \cup
         {InsertedRow(nextSnapId, snapshot_date, zerodha_user_id,
                      trading_strategy, metrics)}

\* ------------------------------------------ create_snapshot, one request
\* The whole of create_snapshot when no other request overlaps it.
\* fault names the statement at which the storage layer raises, if any:
\* "ltps" inside _store_symbol_ltps (rolled back there), "row" at the commit
\* of the snapshot row.
CreateSnapshot(snapshot_date, zerodha_user_id, trading_strategy, account_ids, fault) ==
    /\ AllIdle
    /\ clock < MaxClock
    /\ IF metrics_raise(snapshot_date, zerodha_user_id, account_ids)
       THEN \* line 250 raises before anything is read or written
            /\ fault = "none"
            /\ last' = [ op |-> "create_snapshot", ok |-> FALSE, inserted |-> FALSE,
                         key |-> << snapshot_date, zerodha_user_id, trading_strategy >>,
                         id |-> 0 ]
            /\ UNCHANGED << clock, symbolPrices, snapshots, nextSnapId >>
       ELSE \E xirr_result \in XirrResults(snapshot_date, zerodha_user_id, account_ids),
               existing \in FirstChoices(existing_query(snapshot_date, zerodha_user_id,
                                                        trading_strategy)) :
            LET metrics == calculate_portfolio_metrics(snapshot_date, zerodha_user_id,
                                                       account_ids, xirr_result)
                snapshot_taken_at == clock + 1
            IN /\ clock' = snapshot_taken_at
               /\ symbolPrices' = IF fault = "ltps" THEN symbolPrices
                                  ELSE symbol_prices(snapshot_taken_at)
               /\ snapshots' = IF fault # "none" THEN snapshots
                               ELSE WriteSnapshotRow(existing, snapshot_date,
                                        zerodha_user_id, trading_strategy, metrics)
               /\ nextSnapId' = IF fault = "none" /\ existing = None
                                THEN nextSnapId + 1 ELSE nextSnapId
               /\ last' = [ op |-> "create_snapshot", ok |-> (fault = "none"),
                            inserted |-> (fault = "none" /\ existing = None),
                            key |-> << snapshot_date, zerodha_user_id, trading_strategy >>,
                            id |-> IF IsSome(existing) THEN Val(existing) ELSE nextSnapId ]
    /\ UNCHANGED << now, cache_timestamps, payins, migration_flags, price_cache, trades, workers >>

\* DELETE /api/snapshots/id/{snapshot_id}
DeleteSnapshot(snapshot_id) ==
    /\ \E r \in snapshots : r.id = snapshot_id
    /\ snapshots' = {r \in snapshots : r.id # snapshot_id}
    /\ last' = [op |-> "delete_snapshot", ok |-> TRUE]
    /\ UNCHANGED << now, cache_timestamps, payins, migration_flags, price_cache, trades, nextSnapId, symbolPrices, clock, workers >>

Faults == {"none", "ltps", "row"}

\* ---- the snapshot table under sequential requests: every key, a ledger
\* ---- that grows between the calls
NextRows ==
    \/ ImportOpenTrade("AAA", 1, 1, 1, Some("U1"), Some(MaxPrice))
    \/ \E d \in Dates, u \in Opt(Accounts), st \in Opt(Strategies) :
          CreateSnapshot(d, u, st, {}, "none")
    \/ \E id \in 1..MaxClock : DeleteSnapshot(id)

SpecRows == Init /\ [][NextRows]_vars

\* ---- the price cache under sequential requests: every kind of trade, the
\* ---- aggregated SWING snapshot, storage faults
NextCache ==
    \/ \E s \in Symbols : BuyTrade(s, 1, 1, 1, None)
    \/ \E s \in Symbols, c \in Opt(RawPrices) :
          ImportOpenTrade(s, 1, 1, 1, Some("U1"), c)
    \/ \E s \in Symbols : ImportClosedTrade(s, 1, 1, 1, Some("U1"), 1, MaxPrice)
    \/ \E f \in Faults : CreateSnapshot(1, None, Some("SWING"), Accounts, f)

SpecCache == Init /\ [][NextCache]_vars

\* ------------------------------- create_snapshot, overlapping requests
\* Each request runs in its own session (SessionLocal(), get_db) against
\* the shared database; the engine is created without an isolation level
\* (database.py:125-138), so statements see what is committed when they run
\* and a session's writes reach the tables at its commit.  The steps are the
\* statements of create_snapshot in program order.

\* lines 250-278: metrics, the existence lookup, datetime.now()
SnapLookup(w, snapshot_date, zerodha_user_id, trading_strategy, account_ids) ==
    /\ workers[w].pc \in {"idle", "done"}
    /\ clock < MaxClock
    /\ ~metrics_raise(snapshot_date, zerodha_user_id, account_ids)
    /\ \E xirr_result \in XirrResults(snapshot_date, zerodha_user_id, account_ids),
          existing \in FirstChoices(existing_query(snapshot_date, zerodha_user_id,
                                                   trading_strategy)) :
         workers' = [workers EXCEPT ![w] =
            [ pc |-> "delete_ltps",
              key |-> << snapshot_date, zerodha_user_id, trading_strategy >>,
              metrics |-> calculate_portfolio_metrics(snapshot_date,
                              zerodha_user_id, account_ids, xirr_result),
              existing |-> existing,
              snapshot_taken_at |-> clock + 1,
              overlapped |-> \E v \in Workers \ {w} :
                                workers[v].pc \notin {"idle", "done"} ]]
    /\ clock' = clock + 1
    /\ UNCHANGED << now, cache_timestamps, payins, migration_flags, price_cache, trades, snapshots, nextSnapId, symbolPrices, last >>

\* _store_symbol_ltps lines 184-218: the aggregation query, the DELETE of
\* the rows committed at this moment, the pending new rows
SnapDeleteLtps(w) ==
    /\ workers[w].pc = "delete_ltps"
    /\ workers' = [workers EXCEPT ![w] =
          [ pc |-> "commit_ltps", key |-> @.key, metrics |-> @.metrics,
            existing |-> @.existing, overlapped |-> @.overlapped,
            deleted |-> symbolPrices,
            added |-> symbol_prices(@.snapshot_taken_at) ]]
    /\ UNCHANGED << now, cache_timestamps, payins, migration_flags, price_cache, trades, snapshots, nextSnapId, symbolPrices, clock, last >>

\* _store_symbol_ltps line 220: db.commit()
SnapCommitLtps(w) ==
    /\ workers[w].pc = "commit_ltps"
    /\ symbolPrices' = (symbolPrices \ workers[w].deleted) \cup workers[w].added
    /\ workers' = [workers EXCEPT ![w] =
          [ pc |-> "write_row", key |-> @.key, metrics |-> @.metrics,
            existing |-> @.existing, overlapped |-> @.overlapped ]]
    /\ UNCHANGED << now, cache_timestamps, payins, migration_flags, price_cache, trades, snapshots, nextSnapId, clock, last >>

\* lines 281-318: UPDATE of the looked-up row, or INSERT, and db.commit();
\* an UPDATE whose row is gone raises (the flush matches no row)
SnapWriteRow(w) ==
    /\ workers[w].pc = "write_row"
    /\ LET me == workers[w]
           stale == IsSome(me.existing) /\ Val(me.existing) \notin RowIds(snapshots)
       IN /\ snapshots' = IF stale THEN snapshots
                          ELSE WriteSnapshotRow(me.existing, me.key[1], me.key[2],
                                                me.key[3], me.metrics)
          /\ nextSnapId' = IF me.existing = None THEN nextSnapId + 1 ELSE nextSnapId
          /\ workers' = [workers EXCEPT ![w] =
                [ pc |-> "done", key |-> me.key, ok |-> ~stale,
                  inserted |-> (me.existing = None),
                  overlapped |-> me.overlapped ]]
          /\ last' = [ op |-> "create_snapshot", ok |-> ~stale,
                       inserted |-> (me.existing = None), key |-> me.key,
                       id |-> IF IsSome(me.existing) THEN Val(me.existing)
                              ELSE nextSnapId ]
    /\ UNCHANGED << now, cache_timestamps, payins, migration_flags, price_cache, trades, symbolPrices, clock >>

\* ---- the scheduled job and a manual request running side by side
NextConc ==
    \/ \E s \in Symbols, c \in Prices :
          ImportOpenTrade(s, 1, 1, 1, Some("U1"), Some(c))
    \/ \E w \in Workers, u \in Opt({"U1"}), st \in Opt({"OVERALL"}) :
          SnapLookup(w, 1, u, st, {})
    \/ \E w \in Workers : SnapDeleteLtps(w)
    \/ \E w \in Workers : SnapCommitLtps(w)
    \/ \E w \in Workers : SnapWriteRow(w)

SpecConc == Init /\ [][NextConc]_vars

\* ------------------------------------------------------------ broker sync
\* A broker quote: last_price (0 when the broker reports none), the broker's
\* own net_change, and ohlc.close.
QuotesAt(last_prices) ==
    [last_price : last_prices, net_change : {Some(MaxPrice + 1)}, close : {1}]

Quotes == QuotesAt({0, 1, MaxPrice})

\* kite.quote for one exchange: it raises, or returns quotes for some of the
\* requested symbols (get_batch_quotes, zerodha_service.py:264-284)
NoQuotes == [sym \in Symbols |-> None]

BatchResponses(requested, quoted) ==
    {[raised |-> TRUE, quotes |-> NoQuotes]} \cup
    {[raised |-> FALSE,
      quotes |-> [sym \in Symbols |-> IF sym \in requested THEN f[sym] ELSE None]] :
        f \in [requested -> Opt(quoted)]}

OpenSymbols == {trades[i].symbol : i \in OpenTrades}

\* symbols "not found in NSE": absent, or without a last_price
missing_symbols(quotes) ==
    {sym \in OpenSymbols :
        quotes[sym] = None \/ Val(quotes[sym]).last_price = 0}

\* quotes.update(quotes_bse)
merged_quotes(quotes, quotes_bse) ==
    [sym \in Symbols |-> IF IsSome(quotes_bse[sym]) THEN quotes_bse[sym]
                         ELSE quotes[sym]]

\* _get_snapshot_ltp: the ltp of .first() of the symbol's cache rows when it
\* is positive, else None; every value some row can give
snapshot_ltp_choices(symbol) ==
    IF CacheRowsOf(symbol) = {} THEN {None}
    ELSE {IF r.ltp > 0 THEN Some(r.ltp) ELSE None : r \in CacheRowsOf(symbol)}

\* mutant of day_change_from_quote: without a baseline the broker's
\* net_change is stored
day_change_broker_fallback(quote, snapshot_ltp) ==
    IF quote.last_price <= 0 THEN << None, None >>
    ELSE IF IsSome(snapshot_ltp) /\ Val(snapshot_ltp) > 0
    THEN << Some(quote.last_price - Val(snapshot_ltp)),
            Some(((quote.last_price - Val(snapshot_ltp)) * 100)
                     \div Val(snapshot_ltp)) >>
    ELSE << quote.net_change, quote.net_change >>

\* mutant of day_change_from_quote: the broker's net_change is stored
day_change_from_broker(quote, snapshot_ltp) ==
    IF quote.last_price <= 0 THEN << None, None >>
    ELSE IF IsSome(snapshot_ltp) /\ Val(snapshot_ltp) > 0 /\ IsSome(quote.net_change)
    THEN << quote.net_change,
            Some((Val(quote.net_change) * 100) \div Val(snapshot_ltp)) >>
    ELSE << None, None >>

\* _calculate_day_change_from_quote, given the looked-up snapshot ltp:
\* (net_change, net_change_percentage)
day_change_from_quote(quote, snapshot_ltp) ==
    IF quote.last_price <= 0 THEN << None, None >>
    ELSE IF IsSome(snapshot_ltp) /\ Val(snapshot_ltp) > 0
    THEN << Some(quote.last_price - Val(snapshot_ltp)),
            Some(((quote.last_price - Val(snapshot_ltp)) * 100)
                     \div Val(snapshot_ltp)) >>
    ELSE << None, None >>

\* the loop body of sync_positions / sync_holdings (lines 123-147)
synced_trade(t, quotes, snapshot_ltp) ==
    IF IsSome(quotes[t.symbol])
    THEN LET quote == Val(quotes[t.symbol])
             change == day_change_from_quote(quote, snapshot_ltp)
         IN [t EXCEPT !.current_price =
                          IF quote.last_price > 0 THEN Some(quote.last_price) ELSE @,
                      !.day_change = change[1],
                      !.day_change_percentage = change[2]]
    ELSE t

\* one choice of looked-up snapshot ltp per symbol
BaselineChoices ==
    {f \in [Symbols -> UNION {snapshot_ltp_choices(sym) : sym \in Symbols}] :
        \A sym \in Symbols : f[sym] \in snapshot_ltp_choices(sym)}

\* sync_positions and sync_holdings run the same statements (lines 77-160,
\* 163-246).  nse and bse are what the broker answers to the two batch
\* requests; the second is sent only for the missing symbols.
SyncTrades(op, nse, bse) ==
    /\ AllIdle
    /\ IF OpenTrades = {}
       THEN /\ nse = [raised |-> FALSE, quotes |-> NoQuotes]
            /\ bse = nse
            /\ last' = [op |-> op, ok |-> TRUE, raised |-> "none", quotes |-> NoQuotes]
            /\ UNCHANGED trades
       ELSE IF nse.raised
       THEN /\ bse = nse
            /\ last' = [op |-> op, ok |-> FALSE, raised |-> "NSE", quotes |-> NoQuotes]
            /\ UNCHANGED trades
       ELSE IF missing_symbols(nse.quotes) # {} /\ bse.raised
       THEN /\ last' = [op |-> op, ok |-> FALSE, raised |-> "BSE", quotes |-> nse.quotes]
            /\ UNCHANGED trades
       ELSE /\ missing_symbols(nse.quotes) = {} => bse = [raised |-> FALSE, quotes |-> NoQuotes]
            /\ LET quotes == merged_quotes(nse.quotes, bse.quotes) IN
               \E ltp \in BaselineChoices :
                  /\ trades' = [i \in TradeIds |->
                        IF trades[i].status = "OPEN"
                        THEN synced_trade(trades[i], quotes, ltp[trades[i].symbol])
                        ELSE trades[i]]
                  /\ last' = [op |-> op, ok |-> TRUE, raised |-> "none",
                              quotes |-> quotes]
    /\ UNCHANGED << now, cache_timestamps, payins, migration_flags, price_cache, snapshots, nextSnapId, symbolPrices, clock, workers >>

sync_positions(nse, bse) == SyncTrades("sync_positions", nse, bse)
sync_holdings(nse, bse) == SyncTrades("sync_holdings", nse, bse)

\* mutant of sync_step: the rows are updated whatever their status
sync_step_every_row(ts, nse, bse, ltp) ==
    IF OpenTrades = {} THEN [ok |-> TRUE, raised |-> "none", trades |-> ts]
    ELSE IF nse.raised THEN [ok |-> FALSE, raised |-> "NSE", trades |-> ts]
    ELSE IF missing_symbols(nse.quotes) # {} /\ bse.raised
    THEN [ok |-> FALSE, raised |-> "BSE", trades |-> ts]
    ELSE LET quotes == IF missing_symbols(nse.quotes) = {} THEN nse.quotes
                       ELSE merged_quotes(nse.quotes, bse.quotes)
         IN [ok |-> TRUE, raised |-> "none",
             trades |-> [i \in DOMAIN ts |->
                            synced_trade(ts[i], quotes, ltp[ts[i].symbol])]]

\* one sync_positions / sync_holdings call as sync_all runs it, on the
\* ledger ts that the call finds committed: what it raises, and the ledger
\* after its commit or rollback.  Neither call changes a status or a symbol,
\* so the open symbols are those of the ledger before sync_all.
sync_step(ts, nse, bse, ltp) ==
    IF OpenTrades = {} THEN [ok |-> TRUE, raised |-> "none", trades |-> ts]
    ELSE IF nse.raised THEN [ok |-> FALSE, raised |-> "NSE", trades |-> ts]
    ELSE IF missing_symbols(nse.quotes) # {} /\ bse.raised
    THEN [ok |-> FALSE, raised |-> "BSE", trades |-> ts]
    ELSE LET quotes == IF missing_symbols(nse.quotes) = {} THEN nse.quotes
                       ELSE merged_quotes(nse.quotes, bse.quotes)
         IN [ok |-> TRUE, raised |-> "none",
             trades |-> [i \in DOMAIN ts |->
                            IF ts[i].status = "OPEN"
                            THEN synced_trade(ts[i], quotes, ltp[ts[i].symbol])
                            ELSE ts[i]]]

\* sync_all (sync_service.py:249-277): sync_positions, then sync_holdings,
\* each with its own requests and its own commit; an error of either is
\* re-raised.  The two requests before them only fill a debugging record and
\* their errors are swallowed.
sync_all(positions, holdings) ==
    /\ AllIdle
    /\ \E ltp1 \in BaselineChoices, ltp2 \in BaselineChoices :
          LET first == sync_step(trades, positions.nse, positions.bse, ltp1)
              second == sync_step(first.trades, holdings.nse, holdings.bse, ltp2)
          IN /\ trades' = IF first.ok THEN second.trades ELSE trades
             /\ last' = [op |-> "sync_all", ok |-> first.ok /\ second.ok,
                         raised |-> IF first.ok THEN second.raised ELSE first.raised]
    /\ UNCHANGED << now, cache_timestamps, payins, migration_flags, price_cache, snapshots, nextSnapId,
                    symbolPrices, clock, workers >>

\* ----------------------------------------------------------- update_prices
\* zerodha_service.get_quote for one instrument: it raises, or returns the
\* instrument's quote, or nothing
QuoteAnswers(quoted) ==
    [raised : {TRUE}, quote : {None}] \cup [raised : {FALSE}, quote : Opt(quoted)]

NoPrice == [success |-> FALSE]

AlternateExchange(exchange) == IF exchange = "NSE" THEN "BSE" ELSE "NSE"

\* _get_price_zerodha: the requested exchange, then the alternate one; the
\* first quote with a last_price ends the loop, a raising request keeps the
\* quote of the previous one
get_price_zerodha(exchange, answers) ==
    LET first == answers[exchange]
        second == answers[AlternateExchange(exchange)]
        Hit(a) == ~a.raised /\ IsSome(a.quote) /\ Val(a.quote).last_price # 0
        quote == IF Hit(first) \/ second.raised THEN first.quote ELSE second.quote
        successful_exchange ==
            IF Hit(first) THEN exchange
            ELSE IF Hit(second) THEN AlternateExchange(exchange)
            ELSE exchange
    IN IF quote = None THEN NoPrice
       ELSE LET last_price == IF Val(quote).last_price # 0
                              THEN Val(quote).last_price ELSE Val(quote).close
            IN IF last_price > 0
               THEN [success |-> TRUE, current_price |-> last_price,
                     cached |-> FALSE, exchange |-> successful_exchange,
                     quote |-> quote]
               ELSE NoPrice

\* get_real_time_price: a cached price that still counts as valid is served
\* without asking the broker
get_real_time_price(symbol, exchange, answers, valid) ==
    IF exchange \in valid /\ IsSome(price_cache[<< exchange, symbol >>])
    THEN [success |-> TRUE, current_price |-> Val(price_cache[<< exchange, symbol >>]),
          cached |-> TRUE, exchange |-> exchange, quote |-> None]
    ELSE get_price_zerodha(exchange, answers)

\* get_batch_prices for one symbol: NSE, then BSE when that failed
batch_price(symbol, answers, valid) ==
    LET result == get_real_time_price(symbol, "NSE", answers, valid)
    IN IF result.success THEN result
       ELSE get_real_time_price(symbol, "BSE", answers, valid)

\* what one update_prices call meets for a symbol: the broker's answers on the
\* two exchanges and which cached prices are younger than the TTL.  A request
\* the call does not make (the price is served from the cache, or NSE already
\* gave a price) is listed with the one answer Unasked.
Unasked == [raised |-> TRUE, quote |-> None]

PriceInputs(symbol, quoted) ==
    IF symbol \in OpenSymbols
    THEN {inp \in [answers : [Exchanges -> QuoteAnswers(quoted)],
                   valid : SUBSET {e \in Exchanges :
                                      IsSome(price_cache[<< e, symbol >>])}] :
            /\ "NSE" \in inp.valid => \A e \in Exchanges : inp.answers[e] = Unasked
            /\ (/\ ~inp.answers["NSE"].raised
                /\ IsSome(inp.answers["NSE"].quote)
                /\ Val(inp.answers["NSE"].quote).last_price # 0)
                   => inp.answers["BSE"] = Unasked}
    ELSE {[answers |-> [e \in Exchanges |-> Unasked], valid |-> {}]}

\* update_prices (api/trades.py:438-526)
update_prices(inputs) ==
    /\ AllIdle
    /\ LET price_data == [sym \in Symbols |->
                             IF sym \in OpenSymbols
                             THEN batch_price(sym, inputs[sym].answers, inputs[sym].valid)
                             ELSE NoPrice]
       IN /\ price_cache' = [key \in Exchanges \X Symbols |->
                IF /\ price_data[key[2]].success
                   /\ ~price_data[key[2]].cached
                   /\ price_data[key[2]].exchange = key[1]
                THEN Some(price_data[key[2]].current_price)
                ELSE price_cache[key]]
          /\ cache_timestamps' = [key \in Exchanges \X Symbols |->
                IF /\ price_data[key[2]].success
                   /\ ~price_data[key[2]].cached
                   /\ price_data[key[2]].exchange = key[1]
                THEN Some(now)
                ELSE cache_timestamps[key]]
          /\ \E ltp \in BaselineChoices :
                trades' = [i \in TradeIds |->
                    IF trades[i].status = "OPEN" /\ price_data[trades[i].symbol].success
                    THEN LET new_price == price_data[trades[i].symbol].current_price
                             mock_quote == [last_price |-> new_price,
                                            net_change |-> None, close |-> 0]
                             change == day_change_from_quote(
                                 mock_quote, ltp[trades[i].symbol])
                         IN [trades[i] EXCEPT !.current_price = Some(new_price),
                                              !.day_change = change[1],
                                              !.day_change_percentage = change[2]]
                    ELSE trades[i]]
          /\ last' = [op |-> "update_prices", ok |-> TRUE, raised |-> "none",
                      quotes |-> [sym \in Symbols |->
                          IF price_data[sym].success THEN price_data[sym].quote
                          ELSE None]]
    /\ UNCHANGED << now, payins, migration_flags, snapshots, nextSnapId, symbolPrices, clock, workers >>

\* mutant of is_migration_done: the flag of any account counts
is_any_migration_done(user_id) == migration_flags # {}

\* is_migration_done(user_id) for a user id: the account's flag file exists
is_migration_done(user_id) == user_id \in migration_flags

\* migrate_holdings (migration_service.py:51-314).  With the account's flag
\* present the call returns success = False before anything else.  Without
\* it the call goes on to the try block; the function imports
\* zerodha_service inside its body, so the name is local to it and the first
\* statement of the block, zerodha_service.get_holdings(...), raises
\* UnboundLocalError before any request is sent; the handler rolls back and
\* re-raises.  Nothing is written and set_migration_done is not reached.
migrate_holdings(user_id) ==
    /\ AllIdle
    /\ last' = IF is_migration_done(user_id)
               THEN [op |-> "migrate_holdings", ok |-> TRUE, raised |-> "none",
                     quotes |-> NoQuotes, user_id |-> user_id,
                     success |-> Some(FALSE), broker_calls |-> 0]
               ELSE [op |-> "migrate_holdings", ok |-> FALSE,
                     raised |-> "UnboundLocalError",
                     quotes |-> NoQuotes, user_id |-> user_id,
                     success |-> None, broker_calls |-> 0]
    /\ UNCHANGED << now, cache_timestamps, payins, migration_flags, price_cache, trades, snapshots,
                    nextSnapId, symbolPrices, clock, workers >>

\* ---- day change of one symbol: sync and update_prices against a baseline
NextQuotes ==
    \/ ImportOpenTrade("AAA", 1, 1, 1, Some("U1"), Some(MaxPrice))
    \/ migrate_holdings("U1")
    \/ CreateSnapshot(1, None, Some("OVERALL"), Accounts, "none")
    \/ \E nse \in BatchResponses(OpenSymbols, Quotes) :
          \E bse \in BatchResponses(missing_symbols(nse.quotes), Quotes) :
             sync_positions(nse, bse)
    \/ \E nse \in BatchResponses(OpenSymbols, Quotes) :
          \E bse \in BatchResponses(missing_symbols(nse.quotes), Quotes) :
             sync_holdings(nse, bse)
    \/ \E a \in PriceInputs("AAA", QuotesAt({0, MaxPrice})),
          b \in PriceInputs("BBB", QuotesAt({0, MaxPrice})) :
          update_prices([sym \in Symbols |-> IF sym = "AAA" THEN a ELSE b])

SpecQuotes == Init /\ [][NextQuotes]_vars

\* ---- reconciliation: a priced and an unpriced trade, a snapshot baseline,
\* ---- the two sync calls with every answer the broker can give
NextSync ==
    \/ BuyTrade("BBB", 1, 1, 1, Some("U1"))
    \/ ImportOpenTrade("AAA", 1, 1, 1, Some("U1"), Some(1))
    \/ migrate_holdings("U1")
    \/ CreateSnapshot(1, None, Some("OVERALL"), Accounts, "none")
    \/ \E nse \in BatchResponses(OpenSymbols, QuotesAt({0, MaxPrice})) :
          \E bse \in BatchResponses(missing_symbols(nse.quotes), QuotesAt({0, MaxPrice})) :
             sync_positions(nse, bse)
    \/ \E nse \in BatchResponses(OpenSymbols, QuotesAt({0, MaxPrice})) :
          \E bse \in BatchResponses(missing_symbols(nse.quotes), QuotesAt({0, MaxPrice})) :
             sync_holdings(nse, bse)

SpecSync == Init /\ [][NextSync]_vars

\* ------------------------------------------------- buy, sell, import
\* What the broker does with the order of a buy_trade / sell_trade request:
\*   "none"       execute_via_api is off (or no access token): no order
\*   "rejected"   place_order raises; a LIMIT order always does, the
\*                handlers pass no price (zerodha_service.py:179-180)
\*   "executed"   a MARKET order is placed, its status gives the price
\*   "no_status"  a MARKET order is placed, its status gives no price: the
\*                market price is asked for
\*   "placed"     an order of another type is placed; the request's price stays
OrderOutcomes == {"none", "rejected", "executed", "no_status", "placed"}

OrderPlaced(order) == order \in {"executed", "no_status", "placed"}

\* what the market-price request of the fallback meets: the broker's answers
\* on the two exchanges and whether the cached NSE price is younger than the
\* TTL; a request that is not sent is listed with the answer Unasked
MarketInputs(symbol, quoted) ==
    {inp \in [answers : [Exchanges -> QuoteAnswers(quoted)],
              valid : SUBSET {e \in {"NSE"} : IsSome(price_cache[<< e, symbol >>])}] :
        /\ "NSE" \in inp.valid => \A e \in Exchanges : inp.answers[e] = Unasked
        /\ (/\ ~inp.answers["NSE"].raised
            /\ IsSome(inp.answers["NSE"].quote)
            /\ Val(inp.answers["NSE"].quote).last_price # 0)
               => inp.answers["BSE"] = Unasked}

NoMarketInput == [answers |-> [e \in Exchanges |-> Unasked], valid |-> {}]

\* _fetch_fallback_market_price(_buy): the market price, when there is one
fallback_market_price(symbol, order, inp) ==
    IF order = "no_status"
    THEN get_real_time_price(symbol, "NSE", inp.answers, inp.valid)
    ELSE NoPrice

\* the price the request carries after the order block (trades.py:127-170,
\* 238-291): the executed price, else the market price, else its own
order_price(request_price, order, executed_price, market) ==
    IF order = "executed" THEN Some(executed_price)
    ELSE IF order = "no_status" /\ market.success THEN Some(market.current_price)
    ELSE request_price

\* _cache_timestamps after a get_real_time_price call for the symbol:
\* _set_cached_price stamps the entry it writes
stamps_after(symbol, result) ==
    [key \in Exchanges \X Symbols |->
        IF result.success /\ ~result.cached /\ key = << result.exchange, symbol >>
        THEN Some(now)
        ELSE cache_timestamps[key]]

\* _price_cache after a get_real_time_price call for the symbol
cache_after(symbol, result) ==
    [key \in Exchanges \X Symbols |->
        IF result.success /\ ~result.cached /\ key = << result.exchange, symbol >>
        THEN Some(result.current_price)
        ELSE price_cache[key]]

\* POST /api/trades/buy (trades.py:106-208).  req is the validated
\* BuyTradeRequest: buy_price is absent or > 0, quantity > 0, buy_charges >= 0.
buy_trade(req, order, executed_price, inp) ==
    /\ AllIdle
    /\ Len(trades) < MaxTrades
    /\ LET market == fallback_market_price(req.symbol, order, inp)
           price == order_price(req.buy_price, order, executed_price, market)
       IN /\ price_cache' = cache_after(req.symbol, market)
          /\ cache_timestamps' = stamps_after(req.symbol, market)
          /\ IF price = None
             THEN /\ UNCHANGED trades
                  /\ last' = [op |-> "buy_trade", ok |-> FALSE, status |-> 400,
                              order_placed |-> OrderPlaced(order)]
             ELSE /\ trades' = Append(trades,
                        [NewTrade(req.symbol, req.buy_date, Val(price), req.quantity,
                                  req.zerodha_user_id, None)
                            EXCEPT !.buy_charges = Some(req.buy_charges)])
                  /\ last' = [op |-> "buy_trade", ok |-> TRUE, status |-> 201,
                              order_placed |-> OrderPlaced(order)]
    /\ UNCHANGED << now, payins, migration_flags, snapshots, nextSnapId, symbolPrices,
                    clock, workers >>

\* mutant of already_closed: the status is not looked at
never_closed(t) == FALSE

\* the guard of sell_trade (trades.py:233-235)
already_closed(t) == t.status = "CLOSED"

\* POST /api/trades/sell/{trade_id} (trades.py:211-328).  req is the
\* validated SellTradeRequest: sell_price is absent or > 0, sell_charges >= 0,
\* sell_amount is absent or any number.
sell_trade(trade_id, req, order, executed_price, inp) ==
    /\ AllIdle
    /\ IF trade_id \notin TradeIds
       THEN /\ last' = [op |-> "sell_trade", ok |-> FALSE, status |-> 404,
                        trade_id |-> trade_id, via_api |-> order # "none",
                        order_placed |-> FALSE]
            /\ UNCHANGED << trades, price_cache, cache_timestamps >>
       ELSE IF already_closed(trades[trade_id])
       THEN /\ last' = [op |-> "sell_trade", ok |-> FALSE, status |-> 400,
                        trade_id |-> trade_id, via_api |-> order # "none",
                        order_placed |-> FALSE]
            /\ UNCHANGED << trades, price_cache, cache_timestamps >>
       ELSE LET market == fallback_market_price(trades[trade_id].symbol, order, inp)
                price == order_price(req.sell_price, order, executed_price, market)
            IN /\ price_cache' = cache_after(trades[trade_id].symbol, market)
               /\ cache_timestamps' = stamps_after(trades[trade_id].symbol, market)
               /\ IF price = None
                  THEN /\ UNCHANGED trades
                       /\ last' = [op |-> "sell_trade", ok |-> FALSE, status |-> 400,
                                   trade_id |-> trade_id, via_api |-> order # "none",
                                   order_placed |-> OrderPlaced(order)]
                  ELSE /\ trades' = [trades EXCEPT ![trade_id] =
                             [@ EXCEPT !.status = "CLOSED",
                                       !.sell_date = Some(req.sell_date),
                                       !.sell_price = price,
                                       !.sell_amount =
                                           IF req.sell_amount = None
                                           THEN Some(Val(price) * trades[trade_id].quantity)
                                           ELSE req.sell_amount,
                                       !.sell_charges = Some(req.sell_charges)]]
                       /\ last' = [op |-> "sell_trade", ok |-> TRUE, status |-> 200,
                                   trade_id |-> trade_id, via_api |-> order # "none",
                                   order_placed |-> OrderPlaced(order)]
    /\ UNCHANGED << now, payins, migration_flags, snapshots, nextSnapId, symbolPrices,
                    clock, workers >>

\* mutant of import_error: only the missing fields of a CLOSED record are
\* refused, the sign tests are left out
import_error_missing_fields_only(rec) ==
    \/ rec.status = "CLOSED" /\ rec.sell_date = None
    \/ rec.status = "CLOSED" /\ (rec.sell_price = None \/ Val(rec.sell_price) = 0)

\* validate_trade_data (trades_import.py:95-192) on a record that has its
\* required keys and well-formed dates: is the record refused?
import_error(rec) ==
    \/ rec.status = "CLOSED" /\ rec.sell_date = None
    \/ rec.status = "CLOSED" /\ (rec.sell_price = None \/ Val(rec.sell_price) = 0)
    \/ rec.buy_price <= 0
    \/ rec.quantity <= 0
    \/ rec.status = "CLOSED" /\ Val(rec.sell_price) <= 0

\* mutant of imported_trade: the sell fields of the record are stored
\* whatever its status
imported_trade_with_sell_fields(rec, user) ==
    [NewTrade(rec.symbol, rec.buy_date, rec.buy_price, rec.quantity, user,
              IF rec.status = "OPEN" THEN rec.current_price ELSE None)
        EXCEPT !.status = rec.status,
               !.sell_date = rec.sell_date,
               !.sell_price = rec.sell_price,
               !.sell_amount = IF rec.sell_price = None THEN None
                               ELSE Some(Val(rec.sell_price) * rec.quantity)]

\* the Trade that import_trades builds from a validated record
\* (trades.py:678-699): sell fields only for a CLOSED record, current_price
\* only from an OPEN one
imported_trade(rec, user) ==
    LET t == [NewTrade(rec.symbol, rec.buy_date, rec.buy_price, rec.quantity, user,
                       IF rec.status = "OPEN" THEN rec.current_price ELSE None)
                 EXCEPT !.status = rec.status]
    IN IF rec.status = "CLOSED"
       THEN [t EXCEPT !.sell_date = rec.sell_date,
                      !.sell_price = rec.sell_price,
                      !.sell_amount = Some(Val(rec.sell_price) * rec.quantity)]
       ELSE t

\* POST /api/trades/import of a file with one record (trades.py:578-741):
\* a record with an error fails the import, nothing is stored
import_trades(rec, user) ==
    /\ AllIdle
    /\ Len(trades) < MaxTrades
    /\ IF import_error(rec)
       THEN /\ UNCHANGED trades
            /\ last' = [op |-> "import_trades", ok |-> FALSE, status |-> 400]
       ELSE /\ trades' = Append(trades, imported_trade(rec, user))
            /\ last' = [op |-> "import_trades", ok |-> TRUE, status |-> 200]
    /\ UNCHANGED << now, cache_timestamps, payins, migration_flags, price_cache, snapshots, nextSnapId,
                    symbolPrices, clock, workers >>

\* ---- the ledger under buy, sell, import and migration requests
BuyRequests ==
    [ symbol : {"AAA"}, buy_date : {1}, buy_price : Opt({1}),
      quantity : {1}, buy_charges : {0}, zerodha_user_id : {Some("U1")} ]

SellRequests ==
    [ sell_date : {MaxDate}, sell_price : Opt({MaxPrice}), sell_amount : Opt({0}),
      sell_charges : {0} ]

\* records of an import file: every field the validation looks at, with
\* values on both sides of each test
ImportRecords ==
    [ symbol : {"AAA"}, buy_date : {1}, buy_price : {0, 1}, quantity : {0, 1},
      status : {"OPEN", "CLOSED"}, sell_date : Opt({1}),
      sell_price : Opt({-1, 0, MaxPrice}), current_price : {Some(0)} ]

MarketInputsFor(symbol, order) ==
    IF order = "no_status" THEN MarketInputs(symbol, QuotesAt({MaxPrice}))
    ELSE {NoMarketInput}

NextLedger ==
    \/ \E req \in BuyRequests, order \in OrderOutcomes :
          \E inp \in MarketInputsFor(req.symbol, order) :
             buy_trade(req, order, MaxPrice, inp)
    \/ \E trade_id \in 1..MaxTrades, req \in SellRequests, order \in OrderOutcomes :
          \E inp \in MarketInputsFor("AAA", order) :
             sell_trade(trade_id, req, order, MaxPrice, inp)
    \/ \E rec \in ImportRecords : import_trades(rec, Some("U1"))
    \/ migrate_holdings("U1")

SpecLedger == Init /\ [][NextLedger]_vars

\* ---- the migration guard.  The flag files live in the data directory,
\* ---- which outlasts the process and the release that wrote them: any set
\* ---- of accounts may be flagged when the service starts.
InitMigration ==
    /\ InitTables
    /\ migration_flags \in SUBSET Accounts

NextMigration ==
    \/ \E rec \in ImportRecords : import_trades(rec, Some("U1"))
    \/ \E trade_id \in 1..MaxTrades, req \in SellRequests :
          sell_trade(trade_id, req, "none", MaxPrice, NoMarketInput)
    \/ \E user_id \in Accounts : migrate_holdings(user_id)

SpecMigration == InitMigration /\ [][NextMigration]_vars

\* ---- sold trades under reconciliation: one symbol, trades that are
\* ---- bought, imported with a price and sold, a snapshot baseline, and every
\* ---- request that writes prices
\* the answers one sync call meets here: the NSE request raises, or it
\* returns nothing and neither does BSE, or it returns the quote
SyncAnswers ==
    {[nse |-> nse, bse |-> IF nse.raised THEN nse
                           ELSE [raised |-> FALSE, quotes |-> NoQuotes]] :
        nse \in BatchResponses(OpenSymbols, QuotesAt({MaxPrice}))}

\* sync_holdings of sync_all sends its requests only when sync_positions did
\* not raise
SyncAllAnswers ==
    UNION {{[positions |-> positions, holdings |-> holdings] :
               holdings \in IF positions.nse.raised THEN {positions} ELSE SyncAnswers} :
           positions \in SyncAnswers}

FreezeSellRequests ==
    {req \in SellRequests : IsSome(req.sell_price) /\ req.sell_amount = None}

\* update_prices where only NSE has anything to say
NsePriceInputs(symbol) ==
    {inp \in PriceInputs(symbol, QuotesAt({MaxPrice})) :
        inp.answers["BSE"].quote = None /\ "BSE" \notin inp.valid}

NextFreeze ==
    \/ ImportOpenTrade("AAA", 1, 1, 1, Some("U1"), Some(1))
    \/ \E trade_id \in 1..MaxTrades, req \in FreezeSellRequests,
          order \in {"none", "executed"} :
          sell_trade(trade_id, req, order, MaxPrice, NoMarketInput)
    \/ CreateSnapshot(1, None, Some("OVERALL"), Accounts, "none")
    \/ \E answers \in SyncAnswers : sync_positions(answers.nse, answers.bse)
    \/ \E answers \in SyncAnswers : sync_holdings(answers.nse, answers.bse)
    \/ \E answers \in SyncAllAnswers : sync_all(answers.positions, answers.holdings)
    \/ \E a \in NsePriceInputs("AAA"), b \in NsePriceInputs("BBB") :
          update_prices([sym \in Symbols |-> IF sym = "AAA" THEN a ELSE b])
    \/ migrate_holdings("U1")

SpecFreeze == Init /\ [][NextFreeze]_vars

\* ---- the metrics engine on stored ledgers: the tables hold any rows the
\* ---- ledger requests can have written, and the engine is called for every
\* ---- date and scope
\* the ledger has entries of the first day and of a later day
LastDate == MaxDate + 1
LedgerDates == {1, LastDate}

RECURSIVE SetToSeq(_)
\* the rows of a table in primary-key order
SetToSeq(S) ==
    IF S = {} THEN << >>
    ELSE LET x == CHOOSE x \in S : TRUE IN << x >> \o SetToSeq(S \ {x})

\* a trade closed by sell_trade (lines 305-312)
SoldTrade(t, sell_date, sell_price) ==
    [t EXCEPT !.status = "CLOSED", !.sell_date = Some(sell_date),
              !.sell_price = Some(sell_price),
              !.sell_amount = Some(sell_price * t.quantity)]

\* trade rows as buy_trade, import_trades and sell_trade store them: OPEN
\* without a price, with price 0, with a price; sold; of another account
LedgerTrades ==
    {NewTrade("AAA", 1, 1, 1, Some("U1"), cp) : cp \in Opt({0, MaxPrice})}
        \cup {SoldTrade(NewTrade("AAA", 1, 1, 1, Some("U1"), None), LastDate, MaxPrice),
              NewTrade("BBB", 1, 1, 1, Some("U2"), Some(MaxPrice))}

\* payin rows as create_payin stores them (api/payin.py:59-77): the amount
\* is any number, signed or zero
LedgerPayins ==
    [payin_date : {1}, amount : {-1, 0, MaxPrice}, number_of_shares : {None},
     zerodha_user_id : {Some("U1")}]
        \cup {[payin_date |-> 1, amount |-> MaxPrice, number_of_shares |-> Some(2),
               zerodha_user_id |-> Some("U1")],
              [payin_date |-> LastDate, amount |-> 1, number_of_shares |-> None,
               zerodha_user_id |-> Some("U2")]}

\* one payin of 100000 and one OPEN trade of 100 shares bought at 500 and
\* priced 550
ExampleTrades == << NewTrade("AAA", 1, 500, 100, Some("U1"), Some(550)) >>
ExamplePayins ==
    << [payin_date |-> 1, amount |-> 100000, number_of_shares |-> None,
        zerodha_user_id |-> Some("U1")] >>

InitLedger(trade_rows, payin_rows) ==
    /\ \/ /\ trades \in {SetToSeq(S) : S \in {S \in SUBSET trade_rows :
                                                Cardinality(S) <= MaxTrades}}
          /\ payins \in {SetToSeq(S) : S \in {S \in SUBSET payin_rows :
                                                Cardinality(S) <= MaxPayins}}
       \/ trades = ExampleTrades /\ payins = ExamplePayins
    /\ snapshots = {}
    /\ nextSnapId = 1
    /\ symbolPrices = {}
    /\ clock = 0
    /\ workers = [w \in Workers |-> Idle]
    /\ last = [op |-> "init", ok |-> TRUE]
    /\ price_cache = [key \in Exchanges \X Symbols |-> None]
    /\ cache_timestamps = [key \in Exchanges \X Symbols |-> None]
    /\ now = 0
    /\ migration_flags = {}

InitMetrics == InitLedger(LedgerTrades, LedgerPayins)

\* one call of calculate_portfolio_metrics; the result, or that it raised,
\* is kept in last
Metrics(snapshot_date, zerodha_user_id, account_ids) ==
    /\ IF metrics_raise(snapshot_date, zerodha_user_id, account_ids)
       THEN last' = [ op |-> "calculate_portfolio_metrics", ok |-> FALSE,
                      snapshot_date |-> snapshot_date,
                      target |-> target_account_ids(zerodha_user_id, account_ids) ]
       ELSE \E xirr_result \in XirrResults(snapshot_date, zerodha_user_id, account_ids) :
            last' = [ op |-> "calculate_portfolio_metrics", ok |-> TRUE,
                      snapshot_date |-> snapshot_date,
                      target |-> target_account_ids(zerodha_user_id, account_ids),
                      xirr_result |-> xirr_result,
                      metrics |-> calculate_portfolio_metrics(snapshot_date,
                                      zerodha_user_id, account_ids, xirr_result) ]
    /\ UNCHANGED << now, cache_timestamps, payins, migration_flags, price_cache, trades, snapshots, nextSnapId,
                    symbolPrices, clock, workers >>

\* POST /api/payins
create_payin(payin_data) ==
    /\ AllIdle
    /\ Len(payins) < MaxPayins
    /\ payins' = Append(payins, payin_data)
    /\ last' = [op |-> "create_payin", ok |-> TRUE]
    /\ UNCHANGED << now, cache_timestamps, migration_flags, price_cache, trades, snapshots, nextSnapId,
                    symbolPrices, clock, workers >>

\* the scopes a caller passes: one account, a list of accounts, or neither
Scopes ==
    {[zerodha_user_id |-> u, account_ids |-> a] :
        u \in Opt({"U1"}), a \in {{}, {"U2"}}}

NextMetrics ==
    \/ \E snapshot_date \in LedgerDates, scope \in Scopes :
          Metrics(snapshot_date, scope.zerodha_user_id, scope.account_ids)
    \/ \E payin_data \in LedgerPayins : create_payin(payin_data)

SpecMetrics == InitMetrics /\ [][NextMetrics]_vars

\* ---- snapshot rows of a ledger that grows between the calls: payins of
\* ---- either sign, trades with and without a price, and create_snapshot
\* ---- inserting the row of one key and updating it
SignedPayins == {p \in LedgerPayins : p.amount # 0 /\ p.number_of_shares = None
                                        /\ p.zerodha_user_id = Some("U1")}

NextValue ==
    \/ \E payin_data \in SignedPayins : create_payin(payin_data)
    \/ \E current_price \in Opt({MaxPrice}) :
          ImportOpenTrade("AAA", 1, 1, 1, Some("U1"), current_price)
    \/ \E snapshot_date \in LedgerDates :
          Metrics(snapshot_date, Some("U1"), {})
    \/ CreateSnapshot(LastDate, Some("U1"), Some("OVERALL"), {}, "none")

SpecValue == Init /\ [][NextValue]_vars

\* ---- the metrics engine on any rows the tables can hold: buy_charges and
\* ---- sell_charges are nullable columns with a client-side default
\* ---- (models/trade.py:36, 42), sell_price is nullable (line 40)
StoredTrades ==
    {NewTrade("AAA", 1, 1, 1, Some("U1"), Some(MaxPrice)),
     [NewTrade("AAA", 1, 1, 1, Some("U1"), None) EXCEPT !.buy_charges = None],
     [SoldTrade(NewTrade("AAA", 1, 1, 1, Some("U1"), None), 1, MaxPrice)
         EXCEPT !.sell_charges = None],
     [SoldTrade(NewTrade("AAA", 1, 1, 1, Some("U2"), None), LastDate, MaxPrice)
         EXCEPT !.sell_price = None]}

InitStored == InitLedger(StoredTrades, LedgerPayins)

SpecStored == InitStored /\ [][NextMetrics]_vars

\* ---------------------------------------------------------- calculate_xirr
\* The root search of utils/xirr.py in fixed-point arithmetic.  A rate r is
\* the integer r * RateScale; cash flows are whole amounts; every cash flow
\* is dated on the first day of the schedule or 365 days after another, so
\* that (1 + r) ** years is 1 or (RateScale + rate) / RateScale.  The
\* tolerance (1e-6 in the source, far above the resolution of a double) is
\* two steps of the arithmetic, so that it stays above its resolution.
RateScale == 100
guess == 10
low_bound == -99
high_bound == 1000
max_iterations == 100
tolerance == 2

MaxFlows == 3

Abs(x) == IF x < 0 THEN -x ELSE x

\* a / b rounded down, for b of either sign
SignedQuotient(a, b) == IF b > 0 THEN a \div b ELSE (-a) \div (-b)

\* lines 26-45: the lists are non-empty, of one length, at least two long,
\* and every date is a date
xirr_input_valid(cash_flows, dates) ==
    /\ Len(cash_flows) # 0 /\ Len(dates) # 0
    /\ Len(cash_flows) = Len(dates)
    /\ Len(cash_flows) >= 2
    /\ \A i \in 1..Len(dates) : IsSome(dates[i])

\* line 48
first_date(dates) ==
    LET days == {Val(dates[i]) : i \in 1..Len(dates)}
    IN CHOOSE d \in days : \A e \in days : d <= e

\* lines 58-59
years(dates, i) == (Val(dates[i]) - first_date(dates)) \div 365

\* present_value(rate) (lines 55-61) times 1 + rate, which is positive on
\* the whole search range: the sum of cf * (RateScale + rate) for the flows
\* of year 0 and cf * RateScale for the flows of year 1, over RateScale
present_value_numerator(cash_flows, dates, rate) ==
    LET idx == 1..Len(cash_flows)
    IN SumOver([i \in idx |-> IF years(dates, i) = 0
                              THEN cash_flows[i] * (RateScale + rate)
                              ELSE cash_flows[i] * RateScale], idx)

\* the sum of years * cf, the numerator of present_value_derivative (lines
\* 64-70): pvd = - later_flows * RateScale^2 / (RateScale + rate)^2
later_flows(cash_flows, dates) ==
    LET idx == 1..Len(cash_flows)
    IN SumOver([i \in idx |-> years(dates, i) * cash_flows[i]], idx)

\* abs(pv) < tolerance (lines 81, 109)
residual_within_tolerance(cash_flows, dates, rate) ==
    Abs(present_value_numerator(cash_flows, dates, rate)) * RateScale
        < tolerance * (RateScale + rate)

\* abs(pvd) < tolerance (line 84)
derivative_within_tolerance(cash_flows, dates, rate) ==
    Abs(later_flows(cash_flows, dates)) * RateScale * RateScale * RateScale
        < tolerance * (RateScale + rate) * (RateScale + rate)

NoRate == [found |-> FALSE, rate |-> 0]
FoundRate(rate) == [found |-> TRUE, rate |-> rate]

RECURSIVE newton_raphson(_, _, _, _)
\* lines 73-98: the Newton-Raphson phase from iteration i on; NoRate when
\* it breaks out of the loop or runs out of iterations
newton_raphson(cash_flows, dates, rate, i) ==
    IF i = max_iterations THEN NoRate
    ELSE IF residual_within_tolerance(cash_flows, dates, rate) THEN FoundRate(rate)
    ELSE IF derivative_within_tolerance(cash_flows, dates, rate) THEN NoRate
    ELSE LET new_rate ==
                 rate + SignedQuotient(
                            present_value_numerator(cash_flows, dates, rate)
                                * (RateScale + rate),
                            later_flows(cash_flows, dates) * RateScale)
         IN IF new_rate < low_bound \/ new_rate > high_bound THEN NoRate
            ELSE IF Abs(new_rate - rate) < tolerance THEN FoundRate(new_rate)
            ELSE newton_raphson(cash_flows, dates, new_rate, i + 1)

RECURSIVE bisection(_, _, _, _, _)
\* lines 101-120: the bisection phase from iteration i on
bisection(cash_flows, dates, low, high, i) ==
    IF i = max_iterations THEN NoRate
    ELSE LET mid == (low + high) \div 2
             pv == present_value_numerator(cash_flows, dates, mid)
             new_low == IF pv > 0 THEN mid ELSE low
             new_high == IF pv > 0 THEN high ELSE mid
         IN IF residual_within_tolerance(cash_flows, dates, mid) THEN FoundRate(mid)
            ELSE IF new_high - new_low < tolerance THEN FoundRate(mid)
            ELSE bisection(cash_flows, dates, new_low, new_high, i + 1)

\* calculate_xirr (lines 14-120): Some(rate) or None
calculate_xirr(cash_flows, dates) ==
    IF ~xirr_input_valid(cash_flows, dates) THEN None
    ELSE LET newton == newton_raphson(cash_flows, dates, guess, 0)
             found == IF newton.found THEN newton
                      ELSE bisection(cash_flows, dates, low_bound, high_bound, 0)
         IN IF found.found THEN Some(found.rate) ELSE None

\* ------------------------------------------------ calculate_portfolio_xirr
\* a float: a number, nan or an infinity; NoNumber is a missing amount
Num(v) == [kind |-> "num", v |-> v]
NaN == [kind |-> "nan", v |-> 0]
Infinity == [kind |-> "inf", v |-> 0]
NoNumber == [kind |-> "none", v |-> 0]

\* truth value of an amount (line 154)
Truthy(x) == x.kind \in {"nan", "inf"} \/ (x.kind = "num" /\ x.v # 0)

\* -float(amount) (line 166)
Negated(x) == IF x.kind = "num" THEN Num(-x.v) ELSE x

\* mutant of portfolio_cash_flows: the payins that are skipped keep their
\* place in the schedule with amount 0
portfolio_cash_flows_keeping_skipped(payin_list, current_value, current_date) ==
    [i \in 1..Len(payin_list) |->
        [cf |-> IF Truthy(payin_list[i].amount) THEN Negated(payin_list[i].amount)
                ELSE Num(0),
         date |-> IF IsSome(payin_list[i].payin_date) THEN payin_list[i].payin_date
                  ELSE Some(current_date)]]
        \o << [cf |-> current_value, date |-> Some(current_date)] >>

\* lines 147-171: one flow per payin that has an amount and a date, then the
\* current value
portfolio_cash_flows(payin_list, current_value, current_date) ==
    LET kept == SelectSeq(payin_list,
                          LAMBDA p : Truthy(p.amount) /\ IsSome(p.payin_date))
    IN [i \in 1..Len(kept) |-> [cf |-> Negated(kept[i].amount),
                                date |-> kept[i].payin_date]]
           \o << [cf |-> current_value, date |-> Some(current_date)] >>

\* lines 174-179: flows that are nan or infinite are dropped
valid_flows(flows) == SelectSeq(flows, LAMBDA f : f.cf.kind = "num")

\* calculate_portfolio_xirr (lines 123-194): Some(percentage) or None
calculate_portfolio_xirr(payin_list, current_value, current_date) ==
    IF Len(payin_list) = 0 THEN None
    ELSE LET valid == valid_flows(portfolio_cash_flows(payin_list, current_value,
                                                        current_date))
             xirr_rate ==
                 calculate_xirr([i \in 1..Len(valid) |-> valid[i].cf.v],
                                [i \in 1..Len(valid) |-> valid[i].date])
         IN IF Len(valid) < 2 THEN None
            ELSE IF xirr_rate = None THEN None
            ELSE Some((Val(xirr_rate) * 100) \div RateScale)

\* ---- the root search on every short schedule
FlowAmounts == {-100, -1, 1, 100, 110}
FlowDays == {0, 365}

SeqsUpTo(S, n) == UNION {[1..k -> S] : k \in 0..n}

\* one call of calculate_xirr: the arguments are in last, the result joins
\* them
Xirr ==
    /\ last.op = "calculate_xirr" /\ ~last.returned
    /\ last' = [ op |-> "calculate_xirr", ok |-> TRUE, returned |-> TRUE,
                 cash_flows |-> last.cash_flows, dates |-> last.dates,
                 result |-> calculate_xirr(last.cash_flows, last.dates) ]
    /\ UNCHANGED << now, cache_timestamps, payins, migration_flags, price_cache, trades, snapshots, nextSnapId,
                    symbolPrices, clock, workers >>

PayinAmounts == {NoNumber, Num(0), Num(100), NaN, Infinity}

PayinDicts == [amount : PayinAmounts, payin_date : Opt({0})]

\* one call of calculate_portfolio_xirr
PortfolioXirr ==
    /\ last.op = "calculate_portfolio_xirr" /\ ~last.returned
    /\ last' = [ op |-> "calculate_portfolio_xirr", ok |-> TRUE, returned |-> TRUE,
                 payins |-> last.payins, current_value |-> last.current_value,
                 current_date |-> last.current_date,
                 result |-> calculate_portfolio_xirr(last.payins, last.current_value,
                                                     last.current_date) ]
    /\ UNCHANGED << now, cache_timestamps, payins, migration_flags, price_cache, trades, snapshots, nextSnapId,
                    symbolPrices, clock, workers >>

\* a call of one of the two functions with its arguments
InitXirr ==
    /\ trades = << >>
    /\ snapshots = {}
    /\ nextSnapId = 1
    /\ symbolPrices = {}
    /\ clock = 0
    /\ workers = [w \in Workers |-> Idle]
    /\ price_cache = [key \in Exchanges \X Symbols |-> None]
    /\ cache_timestamps = [key \in Exchanges \X Symbols |-> None]
    /\ now = 0
    /\ payins = << >>
    /\ migration_flags = {}
    /\ \/ \E cash_flows \in SeqsUpTo(FlowAmounts, MaxFlows),
             dates \in SeqsUpTo(Opt(FlowDays), MaxFlows) :
             last = [ op |-> "calculate_xirr", ok |-> TRUE, returned |-> FALSE,
                      cash_flows |-> cash_flows, dates |-> dates ]
       \/ \E payin_list \in SeqsUpTo(PayinDicts, MaxFlows - 1),
             current_value \in {Num(110), NaN, Infinity} :
             last = [ op |-> "calculate_portfolio_xirr", ok |-> TRUE,
                      returned |-> FALSE, payins |-> payin_list,
                      current_value |-> current_value, current_date |-> 365 ]

NextXirr == Xirr \/ PortfolioXirr

SpecXirr == InitXirr /\ [][NextXirr]_vars

\* --------------------------------------------------------- zerodha_charges
\* Prices are whole rupees, charges are whole paise.  The rates of the
\* charge schedule are in units of 1e-8 rupee per rupee of turnover.
ChargeUnitsPerPaisa == 1000000

\* round(total, 2) of an amount in units of 1e-8 rupee, as paise
RoundToPaise(units) == (units + ChargeUnitsPerPaisa \div 2) \div ChargeUnitsPerPaisa

\* product.upper()
Upper(product) == IF product = "mis" THEN "MIS" ELSE product

\* zerodha_intraday_charges (lines 9-33)
zerodha_intraday_charges(buy_price, sell_price, qty) ==
    LET buy_turnover == buy_price * qty
        sell_turnover == sell_price * qty
        turnover == buy_turnover + sell_turnover
        brokerage == IF 30000 * turnover < 20 * 100 * ChargeUnitsPerPaisa
                     THEN 30000 * turnover ELSE 20 * 100 * ChargeUnitsPerPaisa
        stt == 25000 * sell_turnover
        exchange == 3450 * turnover
        sebi == 100 * turnover
        stamp == 3000 * buy_turnover
        gst == (18 * (brokerage + exchange + sebi)) \div 100
    IN RoundToPaise(brokerage + stt + exchange + sebi + stamp + gst)

\* zerodha_delivery_charges (lines 36-59)
zerodha_delivery_charges(buy_price, sell_price, qty) ==
    LET buy_turnover == buy_price * qty
        sell_turnover == sell_price * qty
        turnover == buy_turnover + sell_turnover
        stt == 100000 * turnover
        exchange == 3450 * turnover
        sebi == 100 * turnover
        stamp == 15000 * buy_turnover
        gst == (18 * (exchange + sebi)) \div 100
    IN RoundToPaise(stt + exchange + sebi + stamp + gst)

\* lines 110-113
round_trip_charges(buy_price, sell_price, qty, product) ==
    IF Upper(product) = "MIS"
    THEN zerodha_intraday_charges(buy_price, sell_price, qty)
    ELSE zerodha_delivery_charges(buy_price, sell_price, qty)

\* round(total_charges / 2, 2): half a paisa is not a binary fraction, so
\* an odd total is rounded down or up as its double falls
half_rounded(total_charges) ==
    IF total_charges % 2 = 0 THEN {total_charges \div 2}
    ELSE {total_charges \div 2, total_charges \div 2 + 1}

\* calculate_sell_charges (lines 91-125): the values it can return
calculate_sell_charges(buy_price, sell_price, qty, product, buy_charges) ==
    LET total_charges == round_trip_charges(buy_price, sell_price, qty, product)
    IN IF buy_charges > 0
       THEN IF total_charges - buy_charges < 0
            THEN half_rounded(total_charges)
            ELSE {total_charges - buy_charges}
       ELSE half_rounded(total_charges)

\* ---- the sell charge for every product, a few prices and recorded buy
\* ---- charges from nothing to more than the round trip costs
ChargeCalls ==
    [buy_price : {100, 500}, sell_price : {90, 110, 550}, qty : {1, 2},
     product : {"CNC", "MIS", "mis"}, buy_charges : {0, 1, 10, 100, 1000}]

InitCharges ==
    /\ trades = << >>
    /\ snapshots = {}
    /\ nextSnapId = 1
    /\ symbolPrices = {}
    /\ clock = 0
    /\ workers = [w \in Workers |-> Idle]
    /\ price_cache = [key \in Exchanges \X Symbols |-> None]
    /\ cache_timestamps = [key \in Exchanges \X Symbols |-> None]
    /\ now = 0
    /\ payins = << >>
    /\ migration_flags = {}
    /\ \E call \in ChargeCalls :
          last = [op |-> "calculate_sell_charges", ok |-> TRUE, returned |-> FALSE,
                  call |-> call]

\* one call of calculate_sell_charges
SellCharges ==
    /\ last.op = "calculate_sell_charges" /\ ~last.returned
    /\ \E result \in calculate_sell_charges(last.call.buy_price, last.call.sell_price,
                                            last.call.qty, last.call.product,
                                            last.call.buy_charges) :
          last' = [op |-> "calculate_sell_charges", ok |-> TRUE, returned |-> TRUE,
                   call |-> last.call, result |-> result]
    /\ UNCHANGED << now, cache_timestamps, payins, migration_flags, price_cache, trades, snapshots, nextSnapId,
                    symbolPrices, clock, workers >>

NextCharges == SellCharges

SpecCharges == InitCharges /\ [][NextCharges]_vars

\* ---------------------------------------------------- the price cache TTL
SecondsPerDay == 86400

\* timedelta.seconds of later - earlier (market_data_service.py:29): the
\* seconds of the difference within its day; whole days are in .days
timedelta_seconds(later, earlier) == (later - earlier) % SecondsPerDay

\* _get_cached_price (lines 24-31): the exchanges whose entry for the symbol
\* passes the age test
cached_valid(symbol) ==
    {e \in Exchanges :
        /\ IsSome(price_cache[<< e, symbol >>])
        /\ IsSome(cache_timestamps[<< e, symbol >>])
        /\ timedelta_seconds(now, Val(cache_timestamps[<< e, symbol >>])) < 60}

\* one get_real_time_price call with source ZERODHA and a token (lines
\* 41-67); answers are the broker's answers on the two exchanges
GetRealTimePrice(symbol, exchange, answers) ==
    LET result == get_real_time_price(symbol, exchange, answers, cached_valid(symbol))
    IN /\ price_cache' = cache_after(symbol, result)
       /\ cache_timestamps' = stamps_after(symbol, result)
       /\ last' = [ op |-> "get_real_time_price", ok |-> result.success,
                    key |-> << exchange, symbol >>,
                    cached |-> result.success /\ result.cached,
                    current_price |-> IF result.success THEN Some(result.current_price)
                                      ELSE None,
                    at |-> now,
                    stored_at |-> cache_timestamps[<< exchange, symbol >>] ]
       /\ UNCHANGED << now, payins, migration_flags, trades, snapshots, nextSnapId,
                       symbolPrices, clock, workers >>

\* the moments at which requests arrive: just inside the TTL, at the TTL,
\* and the same a day later
Instants == {0, 59, 60, SecondsPerDay, SecondsPerDay + 59, SecondsPerDay + 60}

\* time passes
Advance(t) ==
    /\ t > now
    /\ now' = t
    /\ UNCHANGED << cache_timestamps, payins, migration_flags, price_cache, trades,
                    snapshots, nextSnapId, symbolPrices, clock, workers, last >>

NextTtl ==
    \/ \E exchange \in Exchanges,
          answers \in [Exchanges -> QuoteAnswers(QuotesAt({1, MaxPrice}))] :
          GetRealTimePrice("AAA", exchange, answers)
    \/ \E t \in Instants : Advance(t)

SpecTtl == Init /\ [][NextTtl]_vars

\* ---- migrate_holdings statement by statement (migration_service.py:51-314)
\* ---- The token exchange (api/zerodha.py:96-105, 160-169) opens a session of
\* ---- its own for each call, so two exchanges for one account run the
\* ---- function side by side.

\* a holding as kite.holdings() reports it
Holding(tradingsymbol, quantity) ==
    [ tradingsymbol |-> tradingsymbol, quantity |-> quantity,
      average_price |-> 1, last_price |-> Some(1) ]

\* what the broker may hold for an account: nothing, one or two holdings, a
\* holding listed twice, a holding sold out (quantity 0), one without symbol
HoldingLists ==
    { << >>,
      << Holding("AAA", 1) >>,
      << Holding("AAA", 1), Holding("BBB", 1) >>,
      << Holding("AAA", 1), Holding("AAA", 1) >>,
      << Holding("AAA", 0) >>,
      << Holding("", 1) >> }

\* lines 69-75: the holdings the loop does not skip
loop_takes(holding) == holding.quantity > 0 /\ holding.tradingsymbol # ""

\* lines 78-82: the OPEN trades with the holding's symbol and quantity
existing_trade(holding) ==
    { i \in OpenTrades : /\ trades[i].symbol = holding.tradingsymbol
                         /\ trades[i].quantity = holding.quantity }

\* lines 57-61: is_migration_done(user_id); the flagged account is answered
\* success = False, the other goes on to the try block
MigrateCheck(w, user_id, holdings) ==
    /\ workers[w].pc \in {"idle", "done"}
    /\ workers' = [workers EXCEPT ![w] =
          IF is_migration_done(user_id)
          THEN [ pc |-> "done", op |-> "migrate_holdings", user_id |-> user_id,
                 holdings |-> holdings, passed_check |-> FALSE,
                 raised |-> "none", success |-> Some(FALSE),
                 overlapped |-> FALSE, trades_before |-> trades ]
          ELSE [ pc |-> "get_holdings", op |-> "migrate_holdings",
                 user_id |-> user_id, holdings |-> holdings,
                 passed_check |-> TRUE,
                 overlapped |-> \E v \in Workers \ {w} :
                                   /\ workers[v].pc = "get_holdings"
                                   /\ workers[v].user_id = user_id,
                 trades_before |-> trades ]]
    /\ last' = IF is_migration_done(user_id)
               THEN [op |-> "migrate_holdings", ok |-> TRUE, raised |-> "none",
                     quotes |-> NoQuotes, user_id |-> user_id,
                     success |-> Some(FALSE), broker_calls |-> 0]
               ELSE last
    /\ UNCHANGED << now, cache_timestamps, payins, migration_flags, price_cache,
                    trades, snapshots, nextSnapId, symbolPrices, clock >>

\* line 64: zerodha_service.get_holdings(access_token).  The function
\* imports zerodha_service inside its body (lines 96, 187), which makes the
\* name local to the whole function: reading it here, before either import
\* has run, raises UnboundLocalError.  Lines 311-314 roll back and re-raise;
\* the loop, the commit of line 245 and set_migration_done are not reached.
MigrateGetHoldings(w) ==
    /\ workers[w].pc = "get_holdings"
    /\ workers' = [workers EXCEPT ![w] =
          [ pc |-> "done", op |-> "migrate_holdings", user_id |-> @.user_id,
            holdings |-> @.holdings, passed_check |-> TRUE,
            raised |-> "UnboundLocalError", success |-> None,
            overlapped |-> @.overlapped, trades_before |-> @.trades_before ]]
    /\ last' = [op |-> "migrate_holdings", ok |-> FALSE,
                raised |-> "UnboundLocalError",
                quotes |-> NoQuotes, user_id |-> workers[w].user_id,
                success |-> None, broker_calls |-> 0]
    /\ UNCHANGED << now, cache_timestamps, payins, migration_flags, price_cache,
                    trades, snapshots, nextSnapId, symbolPrices, clock >>

\* the ledgers a migration may meet: OPEN trades entered by hand or imported,
\* no two of them with the same symbol and quantity
MigrationLedgers ==
    { << >>,
      << NewTrade("AAA", 1, 1, 1, Some("U1"), Some(1)) >>,
      << NewTrade("AAA", 1, 1, 1, None, None) >>,
      << NewTrade("BBB", 1, 1, 1, Some("U1"), Some(1)) >>,
      << NewTrade("AAA", 1, 1, 1, Some("U1"), Some(1)),
         NewTrade("BBB", 1, 1, 1, Some("U1"), Some(1)) >> }

InitHoldings ==
    /\ trades \in MigrationLedgers
    /\ snapshots = {}
    /\ nextSnapId = 1
    /\ symbolPrices = {}
    /\ clock = 0
    /\ workers = [w \in Workers |-> Idle]
    /\ last = [op |-> "init", ok |-> TRUE]
    /\ price_cache = [key \in Exchanges \X Symbols |-> None]
    /\ cache_timestamps = [key \in Exchanges \X Symbols |-> None]
    /\ now = 0
    /\ payins = << >>
    /\ migration_flags \in SUBSET Accounts

NextHoldings ==
    \/ \E w \in Workers, user_id \in Accounts, holdings \in HoldingLists :
          MigrateCheck(w, user_id, holdings)
    \/ \E w \in Workers : MigrateGetHoldings(w)

SpecHoldings == InitHoldings /\ [][NextHoldings]_vars

\* ---- sell_trade statement by statement (trades.py:211-328), for two
\* ---- requests served by two server processes on one database.  Each
\* ---- request has a session of its own (get_db); the handler takes no lock,
\* ---- reads the row with a plain SELECT and writes it with an UPDATE by id.

\* the sell requests of the two clients: with and without a price
ConcurrentSellRequests ==
    [ sell_date : {MaxDate}, sell_price : Opt({1, MaxPrice}), sell_amount : {None},
      sell_charges : {0} ]

\* lines 231-240: the row as committed at this moment; 404 without a row,
\* 400 for a CLOSED one
SellRead(w, trade_id, req) ==
    /\ workers[w].pc \in {"idle", "done"}
    /\ LET found == trade_id \in TradeIds
           refused == found /\ already_closed(trades[trade_id])
           overlapped == \E v \in Workers \ {w} :
                            /\ workers[v].pc \in {"place_order", "commit"}
                            /\ workers[v].trade_id = trade_id
       IN IF found /\ ~refused
          THEN /\ workers' = [workers EXCEPT ![w] =
                     [ pc |-> "place_order", op |-> "sell_trade",
                       trade_id |-> trade_id, req |-> req,
                       overlapped |-> overlapped ]]
               /\ UNCHANGED last
          ELSE /\ workers' = [workers EXCEPT ![w] =
                     [ pc |-> "done", op |-> "sell_trade", trade_id |-> trade_id,
                       req |-> req, read_open |-> FALSE, overlapped |-> FALSE,
                       ok |-> FALSE, status |-> IF found THEN 400 ELSE 404,
                       order_placed |-> FALSE, sell_price |-> None ]]
               /\ last' = [op |-> "sell_trade", ok |-> FALSE,
                           status |-> IF found THEN 400 ELSE 404,
                           trade_id |-> trade_id, via_api |-> FALSE,
                           order_placed |-> FALSE]
    /\ UNCHANGED << now, cache_timestamps, payins, migration_flags, price_cache,
                    trades, snapshots, nextSnapId, symbolPrices, clock >>

\* lines 242-299: the order, the price it gives, and the 400 of a request
\* left without a price
SellOrder(w, order, executed_price, inp) ==
    /\ workers[w].pc = "place_order"
    /\ LET me == workers[w]
           market == fallback_market_price(trades[me.trade_id].symbol, order, inp)
           price == order_price(me.req.sell_price, order, executed_price, market)
       IN /\ price_cache' = cache_after(trades[me.trade_id].symbol, market)
          /\ cache_timestamps' = stamps_after(trades[me.trade_id].symbol, market)
          /\ IF price = None
             THEN /\ workers' = [workers EXCEPT ![w] =
                        [ pc |-> "done", op |-> "sell_trade",
                          trade_id |-> me.trade_id, req |-> me.req,
                          read_open |-> TRUE, overlapped |-> me.overlapped,
                          ok |-> FALSE, status |-> 400,
                          order_placed |-> OrderPlaced(order),
                          sell_price |-> None ]]
                  /\ last' = [op |-> "sell_trade", ok |-> FALSE, status |-> 400,
                              trade_id |-> me.trade_id, via_api |-> order # "none",
                              order_placed |-> OrderPlaced(order)]
             ELSE /\ workers' = [workers EXCEPT ![w] =
                        [ pc |-> "commit", op |-> "sell_trade",
                          trade_id |-> me.trade_id, req |-> me.req,
                          overlapped |-> me.overlapped,
                          via_api |-> order # "none",
                          order_placed |-> OrderPlaced(order),
                          sell_price |-> price ]]
                  /\ UNCHANGED last
    /\ UNCHANGED << now, payins, migration_flags, trades, snapshots, nextSnapId,
                    symbolPrices, clock >>

\* lines 301-328: the sell fields, status CLOSED, db.commit().  The UPDATE
\* names the row by id alone and replaces what another request committed
\* since the read.
SellCommit(w) ==
    /\ workers[w].pc = "commit"
    /\ LET me == workers[w]
       IN /\ trades' = [trades EXCEPT ![me.trade_id] =
                [@ EXCEPT !.status = "CLOSED",
                          !.sell_date = Some(me.req.sell_date),
                          !.sell_price = me.sell_price,
                          !.sell_amount =
                              IF me.req.sell_amount = None
                              THEN Some(Val(me.sell_price) * trades[me.trade_id].quantity)
                              ELSE me.req.sell_amount,
                          !.sell_charges = Some(me.req.sell_charges)]]
          /\ workers' = [workers EXCEPT ![w] =
                [ pc |-> "done", op |-> "sell_trade", trade_id |-> me.trade_id,
                  req |-> me.req, read_open |-> TRUE,
                  overlapped |-> me.overlapped, ok |-> TRUE, status |-> 200,
                  order_placed |-> me.order_placed,
                  sell_price |-> me.sell_price ]]
          /\ last' = [op |-> "sell_trade", ok |-> TRUE, status |-> 200,
                      trade_id |-> me.trade_id, via_api |-> me.via_api,
                      order_placed |-> me.order_placed]
    /\ UNCHANGED << now, cache_timestamps, payins, migration_flags, price_cache,
                    snapshots, nextSnapId, symbolPrices, clock >>

NextSell ==
    \/ ImportOpenTrade("AAA", 1, 1, 1, Some("U1"), Some(1))
    \/ \E w \in Workers, trade_id \in 1..MaxTrades, req \in ConcurrentSellRequests :
          SellRead(w, trade_id, req)
    \/ \E w \in Workers, order \in OrderOutcomes :
          \E inp \in MarketInputsFor("AAA", order) :
             SellOrder(w, order, MaxPrice, inp)
    \/ \E w \in Workers : SellCommit(w)

SpecSell == Init /\ [][NextSell]_vars

\* ======================================================================
\* Properties
\* ======================================================================
\* C1 (first half): portfolio_snapshots never holds two rows with the same
\* (snapshot_date, zerodha_user_id, trading_strategy).
OneRowPerKey ==
    \A r1, r2 \in snapshots : SnapKey(r1) = SnapKey(r2) => r1 = r2

\* C1 (second half): a successful create_snapshot for a key that already has
\* a row inserts nothing: the ids in the table stay the same and the key
\* still has exactly one row.
RepeatedCallInsertsNothing ==
    (/\ last'.op = "create_snapshot" /\ last'.ok
     /\ RowsWithKey(snapshots, last'.key) # {})
    => /\ RowIds(snapshots') = RowIds(snapshots)
       /\ ~last'.inserted
       /\ Cardinality(RowsWithKey(snapshots', last'.key)) = 1

C3_WritesOnlyExactKey ==
    [][ (last'.op = "create_snapshot" /\ last'.ok)
        => \A r \in snapshots : SnapKey(r) # last'.key => r \in snapshots' ]_vars

\* ---------------------------------------------------------------- cache
OneBatch == \A r1, r2 \in symbolPrices : r1.snapshot_taken_at = r2.snapshot_taken_at
SnapshotJustSucceeded == last.op = "create_snapshot" /\ last.ok

\* C4 (as claimed): after a successful create_snapshot every OPEN trade with
\* a non-null current_price has exactly one cache row for its symbol, with
\* ltp equal to that trade's current_price; no other symbol has a row; all
\* rows share one snapshot_taken_at.
C4_CacheMirrorsEveryPricedTrade ==
    SnapshotJustSucceeded =>
        /\ \A i \in OpenTrades : IsSome(trades[i].current_price) =>
              /\ Cardinality(CacheRowsOf(trades[i].symbol)) = 1
              /\ \A r \in CacheRowsOf(trades[i].symbol) :
                    r.ltp = Val(trades[i].current_price)
        /\ \A r \in symbolPrices : \E i \in OpenTrades :
              trades[i].symbol = r.symbol /\ IsSome(trades[i].current_price)
        /\ OneBatch

PositivePricesOf(s) ==
    {Val(trades[i].current_price) : i \in {j \in OpenTrades :
        /\ trades[j].symbol = s
        /\ IsSome(trades[j].current_price)
        /\ Val(trades[j].current_price) > 0}}

\* C4 (amended): after a successful create_snapshot the cache holds exactly
\* one row for each symbol that has an OPEN trade with a positive
\* current_price, its ltp is the largest positive current_price among the
\* symbol's OPEN trades, no other symbol has a row, and all rows share one
\* snapshot_taken_at.
C4_CacheHoldsMaxPositivePrice ==
    SnapshotJustSucceeded =>
        /\ \A s \in Symbols :
              IF PositivePricesOf(s) = {}
              THEN CacheRowsOf(s) = {}
              ELSE /\ Cardinality(CacheRowsOf(s)) = 1
                   /\ \A r \in CacheRowsOf(s) :
                         /\ r.ltp \in PositivePricesOf(s)
                         /\ \A p \in PositivePricesOf(s) : p <= r.ltp
        /\ \A r \in symbolPrices : r.symbol \in Symbols
        /\ OneBatch

\* C4 witness: a successful call replaced the cache of an earlier run while
\* one symbol had two OPEN trades at different positive prices.
C4_Witness ==
    /\ SnapshotJustSucceeded
    /\ \E r \in symbolPrices : r.snapshot_taken_at >= 2
    /\ \E s \in Symbols : Cardinality(PositivePricesOf(s)) = 2

\* C9 (as claimed): a create_snapshot call that fails changes neither
\* portfolio_snapshots nor snapshot_symbol_prices.
C9_FailedCallChangesNothing ==
    [][ (last'.op = "create_snapshot" /\ ~last'.ok)
        => (snapshots' = snapshots /\ symbolPrices' = symbolPrices) ]_vars

\* --------------------------------------------------- overlapping requests
\* C2 (as claimed): when two create_snapshot calls for one key overlap (the
\* second looked up while the first was in flight), the table ends with
\* exactly one row for the key and both calls return without an error.
C2_OverlapLeavesOneRow ==
    \A w1, w2 \in Workers :
        (/\ w1 # w2
         /\ workers[w1].pc = "done" /\ workers[w2].pc = "done"
         /\ workers[w1].key = workers[w2].key
         /\ workers[w2].overlapped)
        => /\ Cardinality(RowsWithKey(snapshots, workers[w1].key)) = 1
           /\ workers[w1].ok /\ workers[w2].ok

\* C10 (as claimed): once the overlapping calls have finished, the cache has
\* at most one row per symbol and a single snapshot_taken_at.
C10_CacheIsOneCallsBatch ==
    (\A w \in Workers : workers[w].pc = "done")
    => /\ \A r1, r2 \in symbolPrices : r1.symbol = r2.symbol => r1 = r2
       /\ OneBatch

\* ---------------------------------------------------------------- sync
SyncOps == {"sync_positions", "sync_holdings"}

\* the quote the last call resolved for a symbol has a positive last_price
ResolvedValid(sym) ==
    IsSome(last.quotes[sym]) /\ Val(last.quotes[sym]).last_price > 0

\* C5: after sync_positions / sync_holdings completes, every OPEN trade whose
\* symbol has no snapshot_symbol_prices entry has day_change = null and
\* day_change_percentage = null, never a fabricated 0 or a broker value.
C5_NoBaselineNoDayChange ==
    (last.op \in SyncOps /\ last.ok) =>
        \A i \in OpenTrades :
            CacheRowsOf(trades[i].symbol) = {} =>
                /\ trades[i].day_change = None
                /\ trades[i].day_change_percentage = None

\* a completed sync that resolved a priced quote, carrying the broker's own
\* net_change, for a trade whose symbol has no cache entry
C5_Witness ==
    /\ last.op \in SyncOps /\ last.ok
    /\ \E i \in OpenTrades :
          /\ CacheRowsOf(trades[i].symbol) = {}
          /\ ResolvedValid(trades[i].symbol)
          /\ IsSome(Val(last.quotes[trades[i].symbol]).net_change)
          /\ trades[i].current_price =
                Some(Val(last.quotes[trades[i].symbol]).last_price)
          /\ trades[i].day_change = None

\* C6: for every OPEN trade with a resolved quote (positive last_price) whose
\* symbol has a positive baseline in snapshot_symbol_prices, sync_positions,
\* sync_holdings and update_prices store current_price = last_price,
\* day_change = last_price - baseline and day_change_percentage =
\* day_change / baseline * 100; the quote's net_change and ohlc.close play no
\* part.
C6_DayChangeFromBaseline ==
    (last.op \in SyncOps \cup {"update_prices"} /\ last.ok) =>
        \A i \in OpenTrades :
            (/\ ResolvedValid(trades[i].symbol)
             /\ \E r \in CacheRowsOf(trades[i].symbol) : r.ltp > 0) =>
                \E r \in CacheRowsOf(trades[i].symbol) :
                    LET last_price == Val(last.quotes[trades[i].symbol]).last_price
                    IN /\ r.ltp > 0
                       /\ trades[i].current_price = Some(last_price)
                       /\ trades[i].day_change = Some(last_price - r.ltp)
                       /\ trades[i].day_change_percentage =
                             Some(((last_price - r.ltp) * 100) \div r.ltp)

\* update_prices resolved a priced quote for a trade whose baseline differs
\* from the quoted price, and the stored change differs from the broker's
C6_Witness ==
    /\ last.op = "update_prices" /\ last.ok
    /\ \E i \in OpenTrades :
          /\ ResolvedValid(trades[i].symbol)
          /\ \E r \in CacheRowsOf(trades[i].symbol) :
                /\ r.ltp > 0
                /\ r.ltp # Val(last.quotes[trades[i].symbol]).last_price
          /\ IsSome(trades[i].day_change)
          /\ trades[i].day_change # Val(last.quotes[trades[i].symbol]).net_change

\* C7: when the BSE batch request raises after the NSE batch request
\* succeeded, the sync call does not raise and the trades resolved on NSE are
\* updated and committed.
C7_SecondaryErrorKeepsPrimaryResults ==
    (last.op \in SyncOps /\ last.raised = "BSE") =>
        /\ last.ok
        /\ \A i \in OpenTrades :
              ResolvedValid(trades[i].symbol) =>
                  trades[i].current_price =
                      Some(Val(last.quotes[trades[i].symbol]).last_price)

\* C8: a sync that returns success leaves every OPEN trade that has no
\* resolved quote with a positive last price unmodified.
UnresolvedTradesUntouched ==
    (last'.op \in SyncOps /\ last'.ok) =>
        \A i \in OpenTrades :
            ~(/\ IsSome(last'.quotes[trades[i].symbol])
              /\ Val(last'.quotes[trades[i].symbol]).last_price > 0) =>
                trades'[i] = trades[i]

C8_UnresolvedTradesUntouched == [][UnresolvedTradesUntouched]_vars

\* ----------------------------------------------------------------- C11
MigrationGuard ==
    last'.op = "migrate_holdings" =>
        /\ last'.user_id \in migration_flags =>
              /\ trades' = trades
              /\ last'.broker_calls = 0
              /\ last'.ok
              /\ last'.success = Some(FALSE)
        /\ last'.user_id \notin migration_flags => last'.success # Some(FALSE)

\* C11: a migrate_holdings call for an account whose migration is marked as
\* done creates and modifies no trade, sends nothing to the broker and
\* returns success = false; a call for an account without a flag is not
\* answered that way, whatever other accounts are flagged.
C11_FlaggedAccountIsNotMigratedAgain == [][MigrationGuard]_vars

C11_Witness ==
    /\ last.op = "migrate_holdings"
    /\ last.user_id \in migration_flags
    /\ migration_flags # Accounts
    /\ last.success = Some(FALSE)
    /\ OpenTrades # {}

SoldFieldsSet(t) ==
    IsSome(t.sell_date) /\ IsSome(t.sell_price) /\ IsSome(t.sell_amount)

\* C13: a trade is CLOSED exactly when its sell_date, sell_price and
\* sell_amount are all set.
C13_ClosedIffSellFieldsSet ==
    \A i \in TradeIds : trades[i].status = "CLOSED" <=> SoldFieldsSet(trades[i])

C13_Witness ==
    /\ \E i \in TradeIds : /\ trades[i].status = "CLOSED"
                           /\ trades[i].sell_amount = Some(0)
    /\ \E i \in OpenTrades : trades[i].current_price = Some(0)
    /\ last.op = "import_trades" /\ last.ok

\* ----------------------------------------------------------------- C14
StatusOnlyClosesBySell ==
    /\ \A i \in TradeIds :
          trades'[i].status # trades[i].status =>
              /\ trades[i].status = "OPEN" /\ trades'[i].status = "CLOSED"
              /\ last'.op = "sell_trade" /\ last'.ok /\ last'.trade_id = i
    /\ \A i \in TradeIds :
          (/\ last'.op = "sell_trade" /\ last'.trade_id = i
           /\ trades[i].status = "CLOSED") =>
              /\ ~last'.ok /\ last'.status = 400
              /\ ~last'.order_placed
              /\ trades' = trades

\* C14: a status changes only from OPEN to CLOSED and only in a successful
\* sell_trade of that trade; a sell request on a CLOSED trade is refused,
\* places no order and changes no field; no request reopens a trade.
C14_ClosedOnceBySellOnly == [][StatusOnlyClosesBySell]_vars

C14_Witness ==
    /\ last.op = "sell_trade" /\ ~last.ok /\ last.status = 400
    /\ last.trade_id \in TradeIds
    /\ trades[last.trade_id].status = "CLOSED"
    /\ last.via_api /\ ~last.order_placed
    /\ IsSome(trades[last.trade_id].day_change)

\* ----------------------------------------------------------------- C15
PriceOps == {"sync_positions", "sync_holdings", "sync_all", "update_prices",
             "migrate_holdings"}

ClosedTradesKeepPrices ==
    last'.op \in PriceOps =>
        \A i \in TradeIds :
            trades[i].status = "CLOSED" =>
                /\ trades'[i].current_price = trades[i].current_price
                /\ trades'[i].day_change = trades[i].day_change
                /\ trades'[i].day_change_percentage = trades[i].day_change_percentage

\* C15: sync_positions, sync_holdings, sync_all, update_prices and
\* migrate_holdings leave current_price, day_change and
\* day_change_percentage of every CLOSED trade as they were.
C15_ClosedTradesKeepPrices == [][ClosedTradesKeepPrices]_vars

C15_Witness ==
    /\ last.op = "sync_all" /\ last.ok
    /\ \E i \in TradeIds, j \in OpenTrades :
          /\ trades[i].status = "CLOSED"
          /\ trades[i].symbol = trades[j].symbol
          /\ trades[i].current_price = Some(1)
          /\ trades[i].day_change = None
          /\ trades[j].current_price = Some(MaxPrice)
          /\ IsSome(trades[j].day_change)

\* ---- metrics engine
ValueIdentity(m) == m.portfolio_value = m.total_payin + m.booked_pl + m.float_pl

MetricsReturned == last.op = "calculate_portfolio_metrics" /\ last.ok

\* C16: every result of calculate_portfolio_metrics, and every
\* PortfolioSnapshot row create_snapshot has written (inserted or updated),
\* satisfies portfolio_value = total_payin + booked_pl + float_pl, whatever
\* the ledger holds: negative payins, trades without a current price
C16_PortfolioValueIdentity ==
    /\ MetricsReturned => ValueIdentity(last.metrics)
    /\ \A r \in snapshots : ValueIdentity(r)

\* a row updated in place after the ledger grew: a negative payin total, a
\* priced trade and a trade without a price
C16_Witness ==
    /\ last.op = "create_snapshot" /\ last.ok /\ ~last.inserted
    /\ \E r \in snapshots : r.total_payin < 0 /\ r.float_pl # 0
    /\ \E i \in TradeIds : trades[i].current_price = None
    /\ \E i \in TradeIds : IsSome(trades[i].current_price)

\* C17: calculate_portfolio_metrics never raises, whatever rows the tables
\* hold: a trade in scope with NULL buy_charges or sell_charges, or a CLOSED
\* trade without sell_price, is skipped or counted as zero
C17_MetricsNeverRaise ==
    last.op = "calculate_portfolio_metrics" => last.ok

\* the figures the metrics contract states, from the tables
ScopedTrades(as_of, target) ==
    {i \in TradeIds :
        /\ trades[i].buy_date <= as_of
        /\ target = {} \/ (IsSome(trades[i].zerodha_user_id)
                             /\ Val(trades[i].zerodha_user_id) \in target)}

RealisedPL(t) ==
    (IF t.sell_amount = None THEN Val(t.sell_price) * t.quantity ELSE Val(t.sell_amount))
        - Val(t.sell_charges) - t.buy_amount - Val(t.buy_charges)

UnrealisedPL(t) ==
    Val(t.current_price) * t.quantity - t.buy_amount - Val(t.buy_charges)

ExpectedBookedPL(as_of, target) ==
    LET sold == {i \in ScopedTrades(as_of, target) :
                    /\ trades[i].status = "CLOSED"
                    /\ IsSome(trades[i].sell_date)
                    /\ Val(trades[i].sell_date) <= as_of}
    IN SumOver([i \in sold |-> RealisedPL(trades[i])], sold)

ExpectedFloatPL(as_of, target, priced) ==
    LET held == {i \in ScopedTrades(as_of, target) :
                    trades[i].status = "OPEN" /\ i \in priced}
    IN SumOver([i \in held |-> UnrealisedPL(trades[i])], held)

ExpectedOpenPositions(as_of, target) ==
    LET held == {i \in ScopedTrades(as_of, target) : trades[i].status = "OPEN"}
    IN SumOver([i \in held |-> trades[i].buy_price * trades[i].quantity], held)

\* the worked example: payin 100000, 100 shares at 500, priced 550
ExampleFigures ==
    (/\ trades = ExampleTrades /\ payins = ExamplePayins
     /\ last.target \in {{}, {"U1"}})
        => /\ last.metrics.float_pl = 5000
           /\ last.metrics.booked_pl = 0
           /\ last.metrics.portfolio_value = 105000
           /\ last.metrics.open_positions = 50000
           /\ last.metrics.utilisation_percent = 50

LedgerFigures(priced) ==
    MetricsReturned =>
        /\ last.metrics.booked_pl = ExpectedBookedPL(last.snapshot_date, last.target)
        /\ last.metrics.float_pl =
               ExpectedFloatPL(last.snapshot_date, last.target, priced)
        /\ last.metrics.open_positions =
               ExpectedOpenPositions(last.snapshot_date, last.target)
        /\ ExampleFigures

\* C18 as stated: booked_pl sums the realised profit/loss of the CLOSED
\* trades in scope sold on or before as_of, float_pl sums the unrealised
\* profit/loss of the OPEN trades in scope that have a current_price,
\* open_positions sums buy_price * quantity of all OPEN trades in scope, and
\* the worked example gives 5000, 0, 105000, 50000 and 50
C18_FiguresOverTradesWithAPrice ==
    LedgerFigures({i \in TradeIds : IsSome(trades[i].current_price)})

\* C18 as the code has it: float_pl sums over the OPEN trades whose
\* current_price is set and is not 0; an OPEN trade priced 0 contributes 0
\* like one without a price
C18_FiguresOverTradesWithANonZeroPrice ==
    LedgerFigures({i \in TradeIds : /\ IsSome(trades[i].current_price)
                                     /\ Val(trades[i].current_price) # 0})

\* a result over an OPEN trade priced 0 and an OPEN trade with a price
C18_Witness ==
    /\ MetricsReturned
    /\ \E i, j \in ScopedTrades(last.snapshot_date, last.target) :
          /\ trades[i].status = "OPEN" /\ trades[i].current_price = Some(0)
          /\ trades[j].status = "OPEN" /\ trades[j].current_price = Some(MaxPrice)
    /\ last.metrics.float_pl = MaxPrice - 1
    /\ last.metrics.open_positions = 2

\* (portfolio_value - total_payin) / total_payin * 100 for every non-zero
\* total, and 0 for a total of exactly 0
ProfitPercentOfNonZeroTotal(portfolio_value, total_payin) ==
    IF total_payin > 0
    THEN Quotient((portfolio_value - total_payin) * 100, total_payin)
    ELSE IF total_payin < 0
    THEN Quotient((total_payin - portfolio_value) * 100, -total_payin)
    ELSE 0

\* C19: absolute_profit_percent is (portfolio_value - total_payin) /
\* total_payin * 100 whenever total_payin is not 0, a negative total
\* included, and the fallback 0 only when total_payin is exactly 0
C19_ProfitPercentForEveryNonZeroTotal ==
    MetricsReturned =>
        last.metrics.absolute_profit_percent =
            ProfitPercentOfNonZeroTotal(last.metrics.portfolio_value,
                                        last.metrics.total_payin)

ScopedPayins(as_of, target) ==
    {k \in PayinIds :
        /\ payins[k].payin_date <= as_of
        /\ target = {} \/ (IsSome(payins[k].zerodha_user_id)
                             /\ Val(payins[k].zerodha_user_id) \in target)}

EmptyScopeCall ==
    /\ last.op = "calculate_portfolio_metrics"
    /\ ScopedTrades(last.snapshot_date, last.target) = {}
    /\ ScopedPayins(last.snapshot_date, last.target) = {}

\* C20: a call whose date and scope select no trade and no payin returns,
\* and nav, portfolio_value, total_payin, booked_pl, float_pl,
\* open_positions, balance, utilisation_percent, xirr and
\* absolute_profit_percent are all 0
C20_EmptyScopeGivesZeros ==
    EmptyScopeCall =>
        /\ last.ok
        /\ \A f \in {"nav", "portfolio_value", "total_payin", "booked_pl",
                      "float_pl", "open_positions", "balance",
                      "utilisation_percent", "xirr", "absolute_profit_percent"} :
              last.metrics[f] = 0

\* the tables hold payins and a trade with NULL charges, all of an account
\* outside the scope of the call
C20_Witness ==
    /\ EmptyScopeCall /\ last.ok
    /\ \E k \in PayinIds : payins[k].amount # 0
    /\ \E i \in TradeIds : trades[i].buy_charges = None

\* ---- root search
XirrSearched ==
    /\ last.op = "calculate_xirr" /\ last.returned
    /\ xirr_input_valid(last.cash_flows, last.dates)

\* the present value keeps one strict sign over the whole search range; it
\* is continuous there, so it has no zero
NoZeroInRange(cash_flows, dates) ==
    \/ \A rate \in low_bound..high_bound :
          present_value_numerator(cash_flows, dates, rate) > 0
    \/ \A rate \in low_bound..high_bound :
          present_value_numerator(cash_flows, dates, rate) < 0

\* C21: when the present value of the schedule has no zero for any rate
\* in the search range, calculate_xirr returns null, not a rate
C21_NoRootGivesNull ==
    (XirrSearched /\ NoZeroInRange(last.cash_flows, last.dates))
        => last.result = None

\* the residual bound of the contract, 1e-4, is a hundred tolerances
ResidualBound == 100 * tolerance

SignChange(cash_flows) ==
    \E i, j \in 1..Len(cash_flows) : cash_flows[i] < 0 /\ cash_flows[j] > 0

SpansDays(dates) ==
    \E i, j \in 1..Len(dates) : Val(dates[i]) # Val(dates[j])

\* C22: for a schedule of at least 2 entries that spans more than 0 days
\* and has a sign change, calculate_xirr returns null or a rate r with
\* |NPV(r)| < 1e-4, NPV counted from the earliest date of the schedule
C22_ReturnedRateHasSmallResidual ==
    (/\ XirrSearched
     /\ SignChange(last.cash_flows) /\ SpansDays(last.dates)
     /\ last.result # None)
        => Abs(present_value_numerator(last.cash_flows, last.dates, Val(last.result)))
               * RateScale
           < ResidualBound * (RateScale + Val(last.result))

\* the cash flows of a portfolio call that are finite and dated: such
\* payins, and the current value when it is finite
FiniteDatedFlows(payin_list, current_value) ==
    Cardinality({i \in 1..Len(payin_list) :
                    /\ payin_list[i].amount.kind = "num"
                    /\ IsSome(payin_list[i].payin_date)})
        + (IF current_value.kind = "num" THEN 1 ELSE 0)

\* C23: calculate_xirr returns null when it is given fewer than 2 cash
\* flows or lists of different lengths, and calculate_portfolio_xirr returns
\* null when fewer than 2 finite, dated cash flows remain, the empty payin
\* list included
C23_TooFewFlowsGiveNull ==
    /\ (/\ last.op = "calculate_xirr" /\ last.returned
         /\ \/ Len(last.cash_flows) < 2
            \/ Len(last.cash_flows) # Len(last.dates))
           => last.result = None
    /\ (/\ last.op = "calculate_portfolio_xirr" /\ last.returned
         /\ \/ Len(last.payins) = 0
            \/ FiniteDatedFlows(last.payins, last.current_value) < 2)
           => last.result = None

\* a portfolio call whose payins are a nan amount and an undated amount,
\* with a finite current value
C23_Witness ==
    /\ last.op = "calculate_portfolio_xirr" /\ last.returned
    /\ last.current_value.kind = "num"
    /\ \E i, j \in 1..Len(last.payins) :
          /\ last.payins[i].amount = NaN /\ IsSome(last.payins[i].payin_date)
          /\ last.payins[j].amount = Num(100) /\ last.payins[j].payin_date = None
    /\ last.result = None

\* ---- charges
\* C24: calculate_sell_charges returns max(0, T - b), T the round-trip
\* charge total at the actual prices for the product and b the recorded buy
\* charge, for every b >= 0, b = 0 and b > T included; so that buy charge
\* plus sell charge is T whenever b <= T
C24_SellChargeIsRemainderOfRoundTrip ==
    (last.op = "calculate_sell_charges" /\ last.returned) =>
        LET T == round_trip_charges(last.call.buy_price, last.call.sell_price,
                                    last.call.qty, last.call.product)
            b == last.call.buy_charges
        IN /\ last.result = IF T - b > 0 THEN T - b ELSE 0
           /\ b <= T => b + last.result = T

\* ---- price cache
\* C25: get_real_time_price serves a price from the in-memory cache only
\* if it was stored for the same exchange:symbol key less than 60 seconds
\* earlier; an entry of any greater age, a day or more included, is never
\* returned
C25_CachedPriceIsYoungerThanTtl ==
    (last.op = "get_real_time_price" /\ last.cached) =>
        /\ IsSome(last.stored_at)
        /\ last.at - Val(last.stored_at) < 60


\* ---- migration of holdings
\* both calls for one account passed the flag check before either reached
\* set_migration_done, and both have returned or raised
OverlappedMigrationsFinished ==
    /\ \A w \in Workers : /\ workers[w].pc = "done"
                          /\ workers[w].op = "migrate_holdings"
                          /\ workers[w].passed_check
    /\ workers["job"].user_id = workers["manual"].user_id
    /\ \E w \in Workers : workers[w].overlapped

CreatedBy(w) ==
    { i \in TradeIds : i > Len(workers[w].trades_before) }

\* the holding had no OPEN trade with its symbol and quantity when the call
\* started
Unmatched(w, holding) ==
    ~ \E i \in 1..Len(workers[w].trades_before) :
          /\ workers[w].trades_before[i].status = "OPEN"
          /\ workers[w].trades_before[i].symbol = holding.tradingsymbol
          /\ workers[w].trades_before[i].quantity = holding.quantity

\* a call that ran alone, for an account without flag, and has ended
MigrationRunAlone(w) ==
    /\ workers[w].pc = "done"
    /\ workers[w].op = "migrate_holdings"
    /\ workers[w].passed_check
    /\ ~workers[w].overlapped
    /\ \A v \in Workers \ {w} : workers[v].pc = "idle"

\* C27: one run of migrate_holdings creates an OPEN trade (buy_price = the
\* holding's average_price, buy_amount = average_price * quantity) for a
\* holding exactly when the holding has quantity > 0, a symbol, and no OPEN
\* trade with the same symbol and quantity; other holdings create no row,
\* and no holding is left as two OPEN trades.
C27_TradeCreatedExactlyForUnmatchedHoldings ==
    \A w \in Workers :
        MigrationRunAlone(w) =>
            /\ \A k \in 1..Len(workers[w].holdings) :
                  LET holding == workers[w].holdings[k]
                      rows == { i \in CreatedBy(w) :
                                  /\ trades[i].status = "OPEN"
                                  /\ trades[i].symbol = holding.tradingsymbol
                                  /\ trades[i].quantity = holding.quantity
                                  /\ trades[i].buy_price = holding.average_price
                                  /\ trades[i].buy_amount =
                                        holding.average_price * holding.quantity }
                  IN IF loop_takes(holding) /\ Unmatched(w, holding)
                     THEN Cardinality(rows) = 1
                     ELSE rows = {}
            /\ \A i \in CreatedBy(w) :
                  \E k \in 1..Len(workers[w].holdings) :
                      /\ loop_takes(workers[w].holdings[k])
                      /\ Unmatched(w, workers[w].holdings[k])
                      /\ trades[i].symbol = workers[w].holdings[k].tradingsymbol


\* ---- every trade bought by the as-of date is accounted for
\* the trades in scope sold on or before the as-of date
SoldBy(as_of, target) ==
    {i \in ScopedTrades(as_of, target) :
        /\ trades[i].status = "CLOSED"
        /\ IsSome(trades[i].sell_date)
        /\ Val(trades[i].sell_date) <= as_of}

\* the other trades in scope: still held on the as-of date
HeldOn(as_of, target) == ScopedTrades(as_of, target) \ SoldBy(as_of, target)

\* C28: in the metrics for an as-of date every trade in scope bought on or
\* before the date is accounted for: booked_pl sums the trades sold on or
\* before the date, and open_positions sums buy_price * quantity of all the
\* others, a trade bought before the date and sold after it included.
C28_EveryTradeBoughtByTheDateIsAccounted ==
    MetricsReturned =>
        /\ last.metrics.booked_pl = ExpectedBookedPL(last.snapshot_date, last.target)
        /\ last.metrics.open_positions =
              SumOver([i \in HeldOn(last.snapshot_date, last.target) |->
                          trades[i].buy_price * trades[i].quantity],
                      HeldOn(last.snapshot_date, last.target))


\* ---- selling through the broker
\* a sell request for an OPEN trade asked for broker execution and
\* place_order did not place the order
SellOrderFailed ==
    /\ last'.op = "sell_trade"
    /\ last'.via_api
    /\ ~last'.order_placed
    /\ last'.trade_id \in TradeIds
    /\ trades[last'.trade_id].status = "OPEN"

\* C29: sell_trade with execute_via_api closes the trade only if the broker
\* accepted the order: when place_order fails the trade stays OPEN with its
\* sell fields null and the request reports an error, whether or not the
\* request carried a sell_price.
C29_FailedSellOrderLeavesTradeOpen ==
    [][SellOrderFailed => (trades' = trades /\ ~last'.ok)]_vars


\* ---- two sell requests for one trade
\* both requests read the same trade while it was OPEN, one of them while
\* the other was between its read and its commit, and both have answered
ConcurrentSellsFinished ==
    /\ \A w \in Workers : /\ workers[w].pc = "done"
                          /\ workers[w].op = "sell_trade"
                          /\ workers[w].read_open
    /\ workers["job"].trade_id = workers["manual"].trade_id
    /\ \E w \in Workers : workers[w].overlapped

\* C30: of two sell requests for the same OPEN trade, each reading it
\* before the other commits, at most one places a broker order and closes
\* the trade, the other is answered 400, and the stored sell fields are those
\* of the request that closed it.
C30_OneOfTwoConcurrentSellsWins ==
    ConcurrentSellsFinished =>
        /\ Cardinality({w \in Workers : workers[w].order_placed}) <= 1
        /\ Cardinality({w \in Workers : workers[w].ok}) <= 1
        /\ \A w \in Workers :
              workers[w].ok =>
                 /\ trades[workers[w].trade_id].sell_price = workers[w].sell_price
                 /\ \A v \in Workers \ {w} : workers[v].status = 400

====
